---- MODULE Spec2Model ----
(***************************************************************************)
(* Futsal match engine (src/src/engine/match/MatchEngine.ts) as a state    *)
(* machine.  `state` is MatchEngine.state, `tickCallbacks` the number of   *)
(* registered onTick subscribers, `last` the most recent public call with  *)
(* what it returned, `ticks` the number of tick() calls made so far and    *)
(* `rejected` how many of them returned stateChanged = false and           *)
(* `returned` the values handed out by getState() so far.  Every           *)
(* method of the engine is an operator with the method's name; a method    *)
(* that calls Math.random() is a set-valued operator returning every       *)
(* outcome the draws allowed by a draw policy P can produce.               *)
(*                                                                         *)
(* Numbers: stamina is kept in hundredths (fitness 90 -> 9000), so the     *)
(* per-tick loss 0.05 + random*0.05 is a draw from 5..9.  Court positions  *)
(* keep the x coordinate only, as integers (y is display-only).  The       *)
(* floating-point possession percentages, ratings and form are not part of *)
(* the model.                                                              *)
(***************************************************************************)
EXTENDS Integers, Sequences, FiniteSets, TLC

VARIABLES state, tickCallbacks, last, ticks, rejected, returned

vars == <<state, tickCallbacks, last, ticks, rejected, returned>>

----------------------------------------------------------------------------
(* Program constants *)

HALF_DURATION_MINUTES == 20
SECONDS_PER_MINUTE == 60
ACCUMULATED_FOULS_PENALTY == 5
POWER_PLAY_SECONDS == 120
AUTO_SUB_INTERVAL == 30

(* Bounds of the model *)

MaxTicks == 3
MaxEvents == 3
MaxCallbacks == 1
MaxIdleTicks == 2
MaxMatchEvents == 9
MaxShootTicks == 8
FoulLeadIn == 6
MaxSecondHalfTicks == 12
TimeoutWindow == 3
MaxSubTicks == 3
MaxSubs == 2
CardWindow == 6
PowerPlayTail == 2
MaxSnapshots == 1
MaxFlyTicks == 2
MaxKeeperTicks == 19
MaxAttackTicks == 5
GoalWindow == 5
MaxAutoSubTicks == 61
SentOffWindow == 7
MaxSentOffTicks == 30
DrawMargin == 1

----------------------------------------------------------------------------
(* Small helpers *)

Sides == {"home", "away"}

Other(side) == IF side = "home" THEN "away" ELSE "home"

Min(a, b) == IF a < b THEN a ELSE b

Max(a, b) == IF a > b THEN a ELSE b

Clamp(lo, hi, v) == Max(lo, Min(hi, v))

Range(seq) == {seq[i] : i \in 1..Len(seq)}

Includes(seq, x) == \E i \in 1..Len(seq) : seq[i] = x

Without(seq, x) == SelectSeq(seq, LAMBDA e : e /= x)

TeamOf(s, side) == IF side = "home" THEN s.home ELSE s.away

WithTeam(s, side, t) ==
    IF side = "home" THEN [s EXCEPT !.home = t] ELSE [s EXCEPT !.away = t]

(* players.find(p => p.playerId === id): index of the first match, 0 if none *)
FindIndex(players, id) ==
    IF \E i \in 1..Len(players) : players[i].playerId = id
    THEN CHOOSE i \in 1..Len(players) :
            /\ players[i].playerId = id
            /\ \A j \in 1..(i - 1) : players[j].playerId /= id
    ELSE 0

(* players.filter(p => p.isOnCourt) *)
OnCourtPlayers(team) == SelectSeq(team.players, LAMBDA p : p.isOnCourt)

----------------------------------------------------------------------------
(* Rosters handed to the constructor *)

Mk(id, position, fitness, shooting) ==
    [id |-> id, position |-> position, fitness |-> fitness, shooting |-> shooting]

HomeSquad ==
    << Mk("h1", "GK", 90, 5), Mk("h2", "FIXO", 90, 10), Mk("h3", "ALA", 90, 12),
       Mk("h4", "ALA", 90, 12), Mk("h5", "PIVO", 90, 15), Mk("h6", "ALA", 90, 12) >>

AwaySquad ==
    << Mk("a1", "GK", 90, 5), Mk("a2", "FIXO", 90, 10), Mk("a3", "ALA", 90, 12),
       Mk("a4", "ALA", 90, 12), Mk("a5", "PIVO", 90, 15), Mk("a6", "FIXO", 90, 10) >>

(* five players, three of them goalkeepers *)
KeeperHeavySquad ==
    << Mk("h1", "GK", 90, 5), Mk("h2", "GK", 90, 5), Mk("h3", "GK", 90, 5),
       Mk("h4", "ALA", 90, 12), Mk("h5", "PIVO", 90, 15) >>

(* rosters of exactly five: one goalkeeper and four outfield players *)
HomeFive == SubSeq(HomeSquad, 1, 5)

AwayFive == SubSeq(AwaySquad, 1, 5)

(* a roster with no player *)
EmptySquad == <<>>

(* five outfield players and no goalkeeper *)
OutfieldFive == SubSeq(AwaySquad, 2, 6)

(* a squad of eight whose goalkeeper is below the stamina floor of 40, whose
   fixo falls below it in the first second and whose pivot after 21 seconds;
   on the bench a goalkeeper at 95, an ala at 71 and a fixo at 75 *)
TiredSquad ==
    << Mk("h1", "GK", 39, 5), Mk("h2", "FIXO", 40, 10), Mk("h3", "ALA", 90, 12),
       Mk("h4", "ALA", 90, 12), Mk("h5", "PIVO", 41, 15), Mk("h6", "GK", 95, 5),
       Mk("h7", "ALA", 71, 12), Mk("h8", "FIXO", 75, 10) >>

(* a squad of six led by an ala, whose fixo falls below the stamina floor of
   40 in the first second; one ala at 90 on the bench *)
WearySquad ==
    << Mk("h1", "ALA", 90, 12), Mk("h2", "FIXO", 40, 10), Mk("h3", "GK", 90, 5),
       Mk("h4", "ALA", 90, 12), Mk("h5", "PIVO", 90, 15), Mk("h6", "ALA", 90, 12) >>

HomeRosters == {HomeSquad, KeeperHeavySquad, EmptySquad}

AwayRosters == {AwaySquad}

----------------------------------------------------------------------------
(* Construction *)

(* x of formationPositions['3-1'][index % 5], mirrored for the away team *)
getInitialPosition(index, isHome) ==
    LET xs == <<10, 30, 30, 55, 80>>
        x  == xs[(index % 5) + 1]
    IN  IF isHome THEN x ELSE 100 - x

createTeamState(players, isHome) ==
    LET gks      == SelectSeq(players, LAMBDA p : p.position = "GK")
        outfield == SelectSeq(players, LAMBDA p : p.position /= "GK")
        starting == IF Len(gks) > 0
                    THEN <<gks[1]>> \o SubSeq(outfield, 1, Min(4, Len(outfield)))
                    ELSE SubSeq(outfield, 1, Min(5, Len(outfield)))
        bench    == SelectSeq(players, LAMBDA p : ~Includes(starting, p))
        idx(p)   == IF Includes(starting, p)
                    THEN (CHOOSE i \in 1..Len(starting) : starting[i] = p) - 1
                    ELSE 0
    IN  [ players |->
            [ i \in 1..Len(players) |->
                [ playerId       |-> players[i].id,
                  position       |-> players[i].position,
                  shooting       |-> players[i].shooting,
                  posX           |-> getInitialPosition(idx(players[i]), isHome),
                  stamina        |-> players[i].fitness * 100,
                  hasYellowCard  |-> FALSE,
                  isOnCourt      |-> Includes(starting, players[i]),
                  minutesPlayed  |-> 0,
                  goals          |-> 0,
                  assists        |-> 0,
                  saves          |-> 0,
                  foulsCommitted |-> 0 ] ],
          onCourt  |-> [ i \in 1..Len(starting) |-> starting[i].id ],
          bench    |-> [ i \in 1..Len(bench) |-> bench[i].id ],
          substitutionsUsed |-> 0,
          timeoutsUsed |-> 0,
          accumulatedFouls |-> 0,
          isUsingFlyingGK |-> FALSE,
          powerPlaySecondsRemaining |-> 0,
          sentOffPlayerId |-> "null" ]

PerSide(v) == [home |-> v, away |-> v]

initialStats ==
    [ shots |-> PerSide(0), shotsOnTarget |-> PerSide(0),
      corners |-> PerSide(0), fouls |-> PerSide(0),
      yellowCards |-> PerSide(0), redCards |-> PerSide(0),
      saves |-> PerSide(0), passes |-> PerSide(0) ]

initializeMatch(homePlayers, awayPlayers) ==
    [ period |-> 0, minute |-> 0, second |-> 0,
      isHalfTime |-> FALSE, isFullTime |-> FALSE, isPaused |-> TRUE,
      homeGoals |-> 0, awayGoals |-> 0,
      ball |-> [ x |-> 50, possessionTeam |-> "null",
                 possessionPlayer |-> "null", isInPlay |-> FALSE ],
      home |-> createTeamState(homePlayers, TRUE),
      away |-> createTeamState(awayPlayers, FALSE),
      events |-> <<>>,
      phase |-> "kickoff",
      stats |-> initialStats ]

----------------------------------------------------------------------------
(* Events *)

(* createEvent stamping every event with period 1 *)
createEvent_firstPeriod(s, type, team, playerId) ==
    [ type |-> type, minute |-> s.minute, second |-> s.second,
      period |-> 1, teamId |-> team, playerId |-> playerId ]

createEvent(s, type, team, playerId) ==
    [ type |-> type, minute |-> s.minute, second |-> s.second,
      period |-> s.period, teamId |-> team, playerId |-> playerId ]

addEvent(s, type, team, playerId) ==
    [s EXCEPT !.events = Append(@, createEvent(s, type, team, playerId))]

----------------------------------------------------------------------------
(* Random player selection *)

(* an element of a non-empty list drawn with Math.floor(Math.random() * n);
   a policy with anyPick = FALSE scripts the draw to the first element *)
Pick(seq, P) ==
    IF P.anyPick THEN Range(seq) ELSE {seq[1]}

getRandomOutfieldPlayer(s, team, P) ==
    LET teamState == TeamOf(s, team)
        outfield  == SelectSeq(teamState.players,
                        LAMBDA p : p.isOnCourt /\ p.position /= "GK")
    IN  IF Len(outfield) = 0
        THEN { IF Len(teamState.onCourt) > 0 THEN teamState.onCourt[1] ELSE "" }
        ELSE { p.playerId : p \in Pick(outfield, P) }

getGoalkeeper(s, team) ==
    LET teamState == TeamOf(s, team)
        gks == SelectSeq(teamState.players,
                   LAMBDA p : p.position = "GK" /\ p.isOnCourt)
    IN  IF Len(gks) > 0 THEN gks[1].playerId
        ELSE IF Len(teamState.onCourt) > 0 THEN teamState.onCourt[1] ELSE ""

----------------------------------------------------------------------------
(* Clock *)

(* minutesPlayed++ for every id of onCourt (first roster entry with the id) *)
BumpMinutes(team) ==
    [team EXCEPT !.players =
        [ i \in 1..Len(team.players) |->
            LET p == team.players[i]
                n == Cardinality({k \in 1..Len(team.onCourt) :
                        FindIndex(team.players, team.onCourt[k]) = i})
            IN  [p EXCEPT !.minutesPlayed = @ + n] ]]

advanceTime(s) ==
    IF s.second + 1 >= SECONDS_PER_MINUTE
    THEN [s EXCEPT !.second = 0, !.minute = @ + 1,
                   !.home = BumpMinutes(s.home), !.away = BumpMinutes(s.away)]
    ELSE [s EXCEPT !.second = @ + 1]

(* checkPeriodEnd comparing with > instead of >= *)
checkPeriodEnd_late(s) ==
    IF s.minute > HALF_DURATION_MINUTES /\ s.period = 1
    THEN [ ended |-> TRUE,
           s |-> [ addEvent([s EXCEPT !.isHalfTime = TRUE, !.isPaused = TRUE],
                            "period_end", "home", "null")
                     EXCEPT !.home.accumulatedFouls = 0,
                            !.away.accumulatedFouls = 0 ] ]
    ELSE IF s.minute > HALF_DURATION_MINUTES /\ s.period = 2
    THEN [ ended |-> TRUE,
           s |-> addEvent([s EXCEPT !.isFullTime = TRUE, !.isPaused = TRUE],
                          "match_end", "home", "null") ]
    ELSE [ ended |-> FALSE, s |-> s ]

(* checkPeriodEnd ending the match without logging match_end *)
checkPeriodEnd_silent(s) ==
    IF s.minute >= HALF_DURATION_MINUTES /\ s.period = 1
    THEN [ ended |-> TRUE,
           s |-> [ addEvent([s EXCEPT !.isHalfTime = TRUE, !.isPaused = TRUE],
                            "period_end", "home", "null")
                     EXCEPT !.home.accumulatedFouls = 0,
                            !.away.accumulatedFouls = 0 ] ]
    ELSE IF s.minute >= HALF_DURATION_MINUTES /\ s.period = 2
    THEN [ ended |-> TRUE,
           s |-> [s EXCEPT !.isFullTime = TRUE, !.isPaused = TRUE] ]
    ELSE [ ended |-> FALSE, s |-> s ]

(* the boolean result is `ended` *)
checkPeriodEnd(s) ==
    IF s.minute >= HALF_DURATION_MINUTES /\ s.period = 1
    THEN [ ended |-> TRUE,
           s |-> [ addEvent([s EXCEPT !.isHalfTime = TRUE, !.isPaused = TRUE],
                            "period_end", "home", "null")
                     EXCEPT !.home.accumulatedFouls = 0,
                            !.away.accumulatedFouls = 0 ] ]
    ELSE IF s.minute >= HALF_DURATION_MINUTES /\ s.period = 2
    THEN [ ended |-> TRUE,
           s |-> addEvent([s EXCEPT !.isFullTime = TRUE, !.isPaused = TRUE],
                          "match_end", "home", "null") ]
    ELSE [ ended |-> FALSE, s |-> s ]

(* kickoff(): one outcome per draw of the kick-off player *)
kickoff(s, P) ==
    { addEvent([s EXCEPT !.period = 1, !.isPaused = FALSE, !.phase = "kickoff",
                         !.ball = [ x |-> 50, possessionTeam |-> "home",
                                    possessionPlayer |-> pl, isInPlay |-> TRUE ]],
               "period_end", "home", "null")
      : pl \in getRandomOutfieldPlayer(s, "home", P) }

startSecondHalf(s, P) ==
    { [s EXCEPT !.period = 2, !.minute = 0, !.second = 0,
                !.isHalfTime = FALSE, !.isPaused = FALSE, !.phase = "kickoff",
                !.ball = [ x |-> 50, possessionTeam |-> "away",
                           possessionPlayer |-> pl, isInPlay |-> TRUE ]]
      : pl \in getRandomOutfieldPlayer(s, "away", P) }

----------------------------------------------------------------------------
(* Per-tick upkeep *)

(* stamina = max(0, stamina - (0.05 + random * 0.05)) for every id of onCourt *)
StaminaOutcomes(team, P) ==
    { [team EXCEPT !.players =
         [ i \in 1..Len(team.players) |->
             LET p == team.players[i]
             IN  IF /\ Includes(team.onCourt, p.playerId)
                    /\ FindIndex(team.players, p.playerId) = i
                 THEN [p EXCEPT !.stamina = Max(0, @ - L[i])]
                 ELSE p ]]
      : L \in [1..Len(team.players) -> P.staminaLoss] }

updatePlayerStamina(s, P) ==
    { [s EXCEPT !.home = h, !.away = a]
      : h \in StaminaOutcomes(s.home, P), a \in StaminaOutcomes(s.away, P) }

(* new x of one on-court player; gk is the draw of the keeper's jitter
   (Math.random() * 6 - 3), rx the draw of randomX ((Math.random() - 0.5) * 25) *)
MovedX(p, isHome, isAttacking, ballX, gk, rx) ==
    IF p.position = "GK"
    THEN Clamp(2, 98, (IF isHome THEN 5 ELSE 95) + gk)
    ELSE LET baseX   == IF isHome
                        THEN (IF isAttacking THEN 30 + (ballX \div 2)
                                             ELSE 20 + ((ballX * 2) \div 5))
                        ELSE (IF isAttacking THEN 70 - ((100 - ballX) \div 2)
                                             ELSE 80 - (((100 - ballX) * 2) \div 5))
             targetX == Clamp(10, 90, baseX + rx)
         IN  Clamp(5, 95, p.posX + ((targetX - p.posX) \div 5))

PositionOutcomes(team, isHome, isAttacking, ballX, P) ==
    { [team EXCEPT !.players =
         [ i \in 1..Len(team.players) |->
             LET p == team.players[i]
             IN  IF p.isOnCourt
                 THEN [p EXCEPT !.posX =
                          MovedX(p, isHome, isAttacking, ballX, G[i], R[i])]
                 ELSE p ]]
      : G \in [1..Len(team.players) -> P.gkJitter],
        R \in [1..Len(team.players) -> P.randomX] }

updatePlayerPositions(s, P) ==
    { [s EXCEPT !.home = h, !.away = a]
      : h \in PositionOutcomes(s.home, TRUE, s.ball.possessionTeam = "home",
                               s.ball.x, P),
        a \in PositionOutcomes(s.away, FALSE, s.ball.possessionTeam = "away",
                               s.ball.x, P) }

(* one side's pass of the forEach in updatePowerPlay *)
PowerPlaySide(s, side) ==
    LET team == TeamOf(s, side)
    IN  IF team.powerPlaySecondsRemaining > 0
        THEN LET left == team.powerPlaySecondsRemaining - 1
                 t1   == [team EXCEPT !.powerPlaySecondsRemaining = left]
             IN  IF left = 0 /\ Len(team.onCourt) < 5
                 THEN LET cands == SelectSeq(team.players,
                                     LAMBDA p : /\ Includes(team.bench, p.playerId)
                                                /\ p.playerId /= team.sentOffPlayerId)
                      IN  IF Len(cands) > 0
                          THEN LET id == cands[1].playerId
                                   i  == FindIndex(team.players, id)
                                   t2 == [t1 EXCEPT
                                            !.onCourt = Append(@, id),
                                            !.bench = Without(@, id),
                                            !.players[i].isOnCourt = TRUE,
                                            !.players[i].posX = 50,
                                            !.sentOffPlayerId = "null"]
                               IN  addEvent(WithTeam(s, side, t2),
                                            "substitution", side, id)
                          ELSE WithTeam(s, side,
                                        [t1 EXCEPT !.sentOffPlayerId = "null"])
                 ELSE WithTeam(s, side, t1)
        ELSE s

updatePowerPlay(s) == PowerPlaySide(PowerPlaySide(s, "home"), "away")

----------------------------------------------------------------------------
(* Manual operations *)

(* makeSubstitution without the check that inPlayerId is on the bench *)
makeSubstitution_benchUnchecked(s, team, outPlayerId, inPlayerId) ==
    LET teamState == TeamOf(s, team)
    IN  IF ~Includes(teamState.onCourt, outPlayerId) THEN [ok |-> FALSE, s |-> s]
        ELSE
          LET o  == FindIndex(teamState.players, outPlayerId)
              n  == FindIndex(teamState.players, inPlayerId)
              t1 == [teamState EXCEPT
                       !.onCourt = Append(Without(@, outPlayerId), inPlayerId),
                       !.bench = Append(Without(@, inPlayerId), outPlayerId),
                       !.substitutionsUsed = @ + 1]
              t2 == IF o > 0 THEN [t1 EXCEPT !.players[o].isOnCourt = FALSE]
                    ELSE t1
              t3 == IF n > 0
                    THEN [t2 EXCEPT
                            !.players[n].isOnCourt = TRUE,
                            !.players[n].posX =
                                IF o > 0 THEN teamState.players[o].posX ELSE @]
                    ELSE t2
          IN  [ok |-> TRUE,
               s  |-> addEvent(WithTeam(s, team, t3),
                               "substitution", team, inPlayerId)]

(* makeSubstitution leaving the incoming player where the bench put them *)
makeSubstitution_ownPosition(s, team, outPlayerId, inPlayerId) ==
    LET teamState == TeamOf(s, team)
    IN  IF ~Includes(teamState.onCourt, outPlayerId) THEN [ok |-> FALSE, s |-> s]
        ELSE IF ~Includes(teamState.bench, inPlayerId) THEN [ok |-> FALSE, s |-> s]
        ELSE
          LET o  == FindIndex(teamState.players, outPlayerId)
              n  == FindIndex(teamState.players, inPlayerId)
              t1 == [teamState EXCEPT
                       !.onCourt = Append(Without(@, outPlayerId), inPlayerId),
                       !.bench = Append(Without(@, inPlayerId), outPlayerId),
                       !.substitutionsUsed = @ + 1]
              t2 == IF o > 0 THEN [t1 EXCEPT !.players[o].isOnCourt = FALSE]
                    ELSE t1
              t3 == IF n > 0 THEN [t2 EXCEPT !.players[n].isOnCourt = TRUE]
                    ELSE t2
          IN  [ok |-> TRUE,
               s  |-> addEvent(WithTeam(s, team, t3),
                               "substitution", team, inPlayerId)]

(* the boolean result is `ok` *)
makeSubstitution(s, team, outPlayerId, inPlayerId) ==
    LET teamState == TeamOf(s, team)
    IN  IF ~Includes(teamState.onCourt, outPlayerId) THEN [ok |-> FALSE, s |-> s]
        ELSE IF ~Includes(teamState.bench, inPlayerId) THEN [ok |-> FALSE, s |-> s]
        ELSE
          LET o  == FindIndex(teamState.players, outPlayerId)
              n  == FindIndex(teamState.players, inPlayerId)
              t1 == [teamState EXCEPT
                       !.onCourt = Append(Without(@, outPlayerId), inPlayerId),
                       !.bench = Append(Without(@, inPlayerId), outPlayerId),
                       !.substitutionsUsed = @ + 1]
              t2 == IF o > 0 THEN [t1 EXCEPT !.players[o].isOnCourt = FALSE]
                    ELSE t1
              t3 == IF n > 0
                    THEN [t2 EXCEPT
                            !.players[n].isOnCourt = TRUE,
                            !.players[n].posX =
                                IF o > 0 THEN teamState.players[o].posX ELSE @]
                    ELSE t2
          IN  [ok |-> TRUE,
               s  |-> addEvent(WithTeam(s, team, t3),
                               "substitution", team, inPlayerId)]

AutoSubSide(s, side) ==
    LET team == TeamOf(s, side)
        tiredPlayers == SelectSeq(team.players,
            LAMBDA p : p.isOnCourt /\ p.stamina < 40 * 100 /\ p.position /= "GK")
        freshBench   == SelectSeq(team.players,
            LAMBDA p : ~p.isOnCourt /\ p.stamina > 70 * 100 /\ p.position /= "GK")
        (* index of the first tired player for whom a replacement is found *)
        found == { k \in 1..Len(tiredPlayers) :
                     \E j \in 1..Len(freshBench) :
                        \/ freshBench[j].position = tiredPlayers[k].position
                        \/ (freshBench[j].position /= "GK"
                            /\ tiredPlayers[k].position /= "GK") }
    IN  IF found = {} THEN s
        ELSE LET k == CHOOSE k \in found : \A m \in found : k <= m
                 tired == tiredPlayers[k]
                 j == CHOOSE j \in 1..Len(freshBench) :
                        /\ \/ freshBench[j].position = tired.position
                           \/ (freshBench[j].position /= "GK"
                               /\ tired.position /= "GK")
                        /\ \A m \in 1..(j - 1) :
                              ~ \/ freshBench[m].position = tired.position
                                \/ (freshBench[m].position /= "GK"
                                    /\ tired.position /= "GK")
             IN  makeSubstitution(s, side, tired.playerId,
                                  freshBench[j].playerId).s

checkAutoSubstitutions(s) == AutoSubSide(AutoSubSide(s, "home"), "away")

(* the boolean result is `ok` *)
callTimeout(s, team) ==
    IF TeamOf(s, team).timeoutsUsed >= 1 THEN [ok |-> FALSE, s |-> s]
    ELSE [ok |-> TRUE,
          s  |-> addEvent(
                   [WithTeam(s, team,
                        [TeamOf(s, team) EXCEPT !.timeoutsUsed = @ + 1])
                      EXCEPT !.isPaused = TRUE],
                   "timeout", team, "null")]

(* activateFlyingGoalkeeper setting the flag of both teams *)
activateFlyingGoalkeeper_bothTeams(s, team) ==
    IF TeamOf(s, team).isUsingFlyingGK THEN [ok |-> FALSE, s |-> s]
    ELSE [ok |-> TRUE,
          s  |-> [s EXCEPT !.home.isUsingFlyingGK = TRUE,
                           !.away.isUsingFlyingGK = TRUE]]

activateFlyingGoalkeeper(s, team) ==
    IF TeamOf(s, team).isUsingFlyingGK THEN [ok |-> FALSE, s |-> s]
    ELSE [ok |-> TRUE,
          s  |-> WithTeam(s, team,
                     [TeamOf(s, team) EXCEPT !.isUsingFlyingGK = TRUE])]

(* `return this.state`: the caller is handed the engine's own state object,
   not a copy.  The returned value is the reference, kept here with what it
   showed when it was returned *)
getState(s) == [ref |-> "this.state", seen |-> s]

pause(s) == [s EXCEPT !.isPaused = TRUE]

resume(s) == [s EXCEPT !.isPaused = FALSE]

----------------------------------------------------------------------------
(* Phase simulation.  An outcome is [s |-> state, ev |-> returned events]. *)

Out(s, ev) == [s |-> s, ev |-> ev]

UpdPlayer(s, side, i, p) ==
    WithTeam(s, side, [TeamOf(s, side) EXCEPT !.players[i] = p])

Bump(stat, side) == [stat EXCEPT ![side] = @ + 1]

getCourtZone(posX, team) ==
    LET x == IF team = "home" THEN posX ELSE 100 - posX
    IN  IF x < 15 THEN "own_goal_area"
        ELSE IF x < 30 THEN "own_half_defense"
        ELSE IF x < 45 THEN "own_half_midfield"
        ELSE IF x < 55 THEN "center"
        ELSE IF x < 70 THEN "opp_half_midfield"
        ELSE IF x < 85 THEN "opp_half_attack"
        ELSE "opp_goal_area"

changePossession(s, P) ==
    LET newTeam == IF s.ball.possessionTeam = "home" THEN "away" ELSE "home"
    IN  { [s EXCEPT !.ball.possessionTeam = newTeam,
                    !.ball.possessionPlayer = pl]
          : pl \in getRandomOutfieldPlayer(s, newTeam, P) }

(* `player` of the source is the roster entry pIdx of team pSide; `side` is
   the side the card is booked to *)
issueCard(s, pSide, pIdx, side, type) ==
    LET id == TeamOf(s, pSide).players[pIdx].playerId
    IN  IF type = "yellow_card"
        THEN LET s1 == UpdPlayer(s, pSide, pIdx,
                           [TeamOf(s, pSide).players[pIdx] EXCEPT !.hasYellowCard = TRUE])
                 s2 == [s1 EXCEPT !.stats.yellowCards = Bump(@, side)]
             IN  Out(s2, <<createEvent(s2, "yellow_card", side, id)>>)
        ELSE IF Len(TeamOf(s, side).onCourt) <= 4
        THEN Out(s, <<>>)
        ELSE LET s1 == [s EXCEPT !.stats.redCards = Bump(@, side)]
                 s2 == UpdPlayer(s1, pSide, pIdx,
                           [TeamOf(s1, pSide).players[pIdx] EXCEPT !.isOnCourt = FALSE])
                 s3 == WithTeam(s2, side,
                           [TeamOf(s2, side) EXCEPT
                              !.onCourt = Without(@, id),
                              !.powerPlaySecondsRemaining = POWER_PLAY_SECONDS,
                              !.sentOffPlayerId = id])
             IN  Out(s3, <<createEvent(s3, type, side, id)>>)

(* `opponent` of the source is the team object of side oppSide *)
checkForFoul(s, oppSide, P) ==
    LET opponent == TeamOf(s, oppSide)
        cands    == OnCourtPlayers(opponent)
        draws    == IF Len(opponent.onCourt) = 0 THEN {1}
                    ELSE IF P.anyPick THEN 1..Len(opponent.onCourt) ELSE {1}
        foulerSide == IF s.ball.possessionTeam = "home" THEN "away" ELSE "home"
        One(k, card) ==
            IF k > Len(cands) THEN Out(s, <<>>)
            ELSE
              LET id == cands[k].playerId
                  i  == CHOOSE j \in 1..Len(opponent.players) :
                           /\ opponent.players[j] = cands[k]
                           /\ \A m \in 1..(j - 1) : opponent.players[m] /= cands[k]
                  s1 == UpdPlayer(s, oppSide, i,
                           [TeamOf(s, oppSide).players[i] EXCEPT !.foulsCommitted = @ + 1])
                  s2 == WithTeam(s1, foulerSide,
                           [TeamOf(s1, foulerSide) EXCEPT !.accumulatedFouls = @ + 1])
                  s3 == [s2 EXCEPT !.stats.fouls = Bump(@, foulerSide)]
                  foulEvent == createEvent(s3, "foul", foulerSide, id)
                  c  == IF ~card THEN Out(s3, <<>>)
                        ELSE IF opponent.players[i].hasYellowCard
                        THEN (IF Len(TeamOf(s3, foulerSide).onCourt) > 4
                              THEN issueCard(s3, oppSide, i, foulerSide,
                                             "second_yellow")
                              ELSE Out(s3, <<>>))
                        ELSE issueCard(s3, oppSide, i, foulerSide, "yellow_card")
              IN  Out([c.s EXCEPT !.phase = "foul"], <<foulEvent>> \o c.ev)
    IN  { One(k, card) : k \in draws, card \in P.card }

(* handleFoulConsequence awarding the penalty from the fifth foul on *)
handleFoulConsequence_atFive(s) ==
    LET foulingTeam == IF s.ball.possessionTeam = "home" THEN "away" ELSE "home"
        foulCount   == TeamOf(s, foulingTeam).accumulatedFouls
    IN  IF foulCount >= ACCUMULATED_FOULS_PENALTY
        THEN LET s1 == [s EXCEPT !.phase = "penalty"]
             IN  [s1 EXCEPT !.events =
                    Append(@, createEvent(s1, "accumulated_foul_penalty",
                                          s.ball.possessionTeam, "null"))]
        ELSE [s EXCEPT !.phase = "free_kick"]

handleFoulConsequence(s) ==
    LET foulingTeam == IF s.ball.possessionTeam = "home" THEN "away" ELSE "home"
        foulCount   == TeamOf(s, foulingTeam).accumulatedFouls
    IN  IF foulCount > ACCUMULATED_FOULS_PENALTY
        THEN LET s1 == [s EXCEPT !.phase = "penalty"]
             IN  [s1 EXCEPT !.events =
                    Append(@, createEvent(s1, "accumulated_foul_penalty",
                                          s.ball.possessionTeam, "null"))]
        ELSE [s EXCEPT !.phase = "free_kick"]

(* the passer is roster entry pIdx of the team in possession, `side` *)
executePass(s, side, pIdx, P) ==
    LET team      == TeamOf(s, side)
        passer    == team.players[pIdx]
        teammates == SelectSeq(team.players,
                        LAMBDA p : p.playerId /= passer.playerId /\ p.isOnCourt)
        s1 == [s EXCEPT !.stats.passes = Bump(@, s.ball.possessionTeam)]
        Success(receiver) ==
            LET s2 == [s1 EXCEPT !.ball.possessionPlayer = receiver.playerId,
                                 !.ball.x = receiver.posX]
                zone == getCourtZone(s2.ball.x, s2.ball.possessionTeam)
            IN  IF zone = "opp_goal_area" \/ zone = "opp_half_attack"
                THEN [s2 EXCEPT !.phase = "attack"] ELSE s2
    IN  IF Len(teammates) = 0 THEN { Out(s, <<>>) }
        ELSE UNION { IF ok THEN { Out(Success(r), <<>>) : r \in Pick(teammates, P) }
                     ELSE { Out(c, <<>>) : c \in changePossession(s1, P) }
                     : ok \in P.passOk }

executeDribble(s, side, pIdx, P) ==
    LET direction == IF s.ball.possessionTeam = "home" THEN 1 ELSE -1
        Success(step) ==
            LET s1 == [s EXCEPT !.ball.x = Clamp(0, 100, @ + direction * step)]
            IN  IF getCourtZone(s1.ball.x, s1.ball.possessionTeam) = "opp_goal_area"
                THEN [s1 EXCEPT !.phase = "attack"] ELSE s1
    IN  UNION { IF ok THEN { Out(Success(step), <<>>) : step \in P.dribbleStep }
                ELSE UNION { IF foul THEN checkForFoul(s, Other(side), P)
                             ELSE { Out(c, <<>>) : c \in changePossession(s, P) }
                             : foul \in P.dribbleFoul }
                : ok \in P.dribbleOk }

(* scoreGoal restarting straight from the kick-off *)
scoreGoal_straightToKickoff(s, side, pIdx, P) ==
    LET s1 == IF side = "home" THEN [s EXCEPT !.homeGoals = @ + 1]
              ELSE [s EXCEPT !.awayGoals = @ + 1]
        s2 == UpdPlayer(s1, side, pIdx, [TeamOf(s1, side).players[pIdx] EXCEPT !.goals = @ + 1])
        goalEvent == createEvent(s2, "goal", side, TeamOf(s2, side).players[pIdx].playerId)
    IN  { Out([s2 EXCEPT !.phase = "kickoff"], <<goalEvent>>) }

(* the scorer is roster entry pIdx of team `side` *)
scoreGoal(s, side, pIdx, P) ==
    LET s1 == IF side = "home" THEN [s EXCEPT !.homeGoals = @ + 1]
              ELSE [s EXCEPT !.awayGoals = @ + 1]
        s2 == UpdPlayer(s1, side, pIdx, [TeamOf(s1, side).players[pIdx] EXCEPT !.goals = @ + 1])
        team == TeamOf(s2, side)
        scorer == team.players[pIdx]
        goalEvent == createEvent(s2, "goal", side, scorer.playerId)
        teammates == SelectSeq(team.players,
                        LAMBDA p : p.playerId /= scorer.playerId /\ p.isOnCourt)
        Assisted(a) ==
            LET i  == CHOOSE j \in 1..Len(team.players) :
                         /\ team.players[j] = a
                         /\ \A m \in 1..(j - 1) : team.players[m] /= a
                s3 == UpdPlayer(s2, side, i, [TeamOf(s2, side).players[i] EXCEPT !.assists = @ + 1])
            IN  Out([s3 EXCEPT !.phase = "goal_scored"],
                    <<goalEvent, createEvent(s3, "assist", side, a.playerId)>>)
        Plain == Out([s2 EXCEPT !.phase = "goal_scored"], <<goalEvent>>)
    IN  IF Len(teammates) = 0 THEN { Plain }
        ELSE UNION { IF as THEN { Assisted(a) : a \in Pick(teammates, P) }
                     ELSE { Plain }
                     : as \in P.assist }

(* index of the first roster entry among the matching ones, 0 if none *)
FirstWhere(players, matching) ==
    IF \E i \in 1..Len(players) : players[i] \in matching
    THEN CHOOSE i \in 1..Len(players) :
            /\ players[i] \in matching
            /\ \A j \in 1..(i - 1) : players[j] \notin matching
    ELSE 0

(* calculateShotOutcome as consumed by simulateShot: "goal" and "saved" are
   the on-target outcomes, "blocked" is off target with isBlocked, "wide"
   stands for the remaining off-target outcomes (wide or post) *)
ShotOutcomes == {"goal", "saved", "blocked", "wide"}

simulateShot(s, P) ==
    LET possessionTeam == s.ball.possessionTeam
        other   == IF possessionTeam = "home" THEN "away" ELSE "home"
        team    == TeamOf(s, possessionTeam)
        sh      == FindIndex(team.players, s.ball.possessionPlayer)
        Resolve(outcome) ==
            LET s1 == [s EXCEPT !.stats.shots = Bump(@, possessionTeam)]
                s2 == IF outcome \in {"goal", "saved"}
                      THEN [s1 EXCEPT !.stats.shotsOnTarget = Bump(@, possessionTeam)]
                      ELSE s1
                shotEvent == createEvent(s2, "shot", possessionTeam,
                                         team.players[sh].playerId)
            IN  IF outcome = "goal"
                THEN { Out(o.s, <<shotEvent>> \o o.ev)
                       : o \in scoreGoal(s2, possessionTeam, sh, P) }
                ELSE IF outcome = "saved"
                THEN LET gk == FirstWhere(TeamOf(s2, other).players,
                                  {p \in Range(TeamOf(s2, other).players) :
                                      p.position = "GK" /\ p.isOnCourt})
                     IN  IF gk > 0
                         THEN LET s3 == UpdPlayer(s2, other, gk,
                                          [TeamOf(s2, other).players[gk] EXCEPT !.saves = @ + 1])
                                  s4 == [s3 EXCEPT !.stats.saves = Bump(@, other)]
                              IN  { Out([s4 EXCEPT !.phase = "save"],
                                        <<shotEvent,
                                          createEvent(s4, "save", other,
                                             TeamOf(s4, other).players[gk].playerId)>>) }
                         ELSE { Out([s2 EXCEPT !.phase = "save"], <<shotEvent>>) }
                ELSE IF outcome = "blocked"
                THEN UNION { IF loose
                             THEN { Out([c EXCEPT !.phase = "open_play"], <<shotEvent>>)
                                    : c \in changePossession(s2, P) }
                             ELSE { Out([s2 EXCEPT !.phase = "open_play"], <<shotEvent>>) }
                             : loose \in P.blockedLoose }
                ELSE { IF corner
                       THEN Out([s2 EXCEPT !.phase = "corner",
                                           !.stats.corners = Bump(@, possessionTeam)],
                                <<shotEvent>>)
                       ELSE Out([s2 EXCEPT !.phase = "goal_kick"], <<shotEvent>>)
                       : corner \in P.wideCorner }
    IN  IF sh = 0 THEN { Out([s EXCEPT !.phase = "open_play"], <<>>) }
        ELSE UNION { Resolve(outcome) : outcome \in P.shot }

simulateCorner(s, P) ==
    LET possessionTeam == s.ball.possessionTeam
        team  == TeamOf(s, possessionTeam)
        ala   == FirstWhere(team.players, {p \in Range(team.players) : p.position = "ALA" /\ p.isOnCourt})
        any   == FirstWhere(team.players, {p \in Range(team.players) : p.isOnCourt /\ p.position /= "GK"})
        taker == IF ala > 0 THEN ala ELSE any
        pivo  == FirstWhere(team.players, {p \in Range(team.players) : p.position = "PIVO" /\ p.isOnCourt})
        target == IF pivo > 0 THEN pivo ELSE taker
        s1 == [s EXCEPT !.ball.possessionPlayer = team.players[taker].playerId]
        Roll(r) ==
            IF r = "shot"
            THEN { Out([s1 EXCEPT !.phase = "shot",
                                  !.ball.possessionPlayer = team.players[target].playerId],
                       <<>>) }
            ELSE IF r = "keep"
            THEN { Out([s1 EXCEPT !.ball.x = IF possessionTeam = "home" THEN 70 ELSE 30,
                                  !.phase = "open_play"], <<>>) }
            ELSE { Out([c EXCEPT !.phase = "open_play"], <<>>)
                   : c \in changePossession(s1, P) }
    IN  IF taker = 0 THEN { Out([s EXCEPT !.phase = "open_play"], <<>>) }
        ELSE UNION { Roll(r) : r \in P.cornerRoll }

simulateFreeKick(s, P) ==
    LET possessionTeam == s.ball.possessionTeam
        ballX   == s.ball.x
        inRange == \/ (possessionTeam = "home" /\ ballX > 65)
                   \/ (possessionTeam = "away" /\ ballX < 35)
    IN  IF inRange
        THEN { Out([s EXCEPT !.phase = IF take THEN "shot" ELSE "open_play"], <<>>)
               : take \in P.fkShot }
        ELSE { Out([s EXCEPT !.phase = "open_play"], <<>>) }

(* filter(isOnCourt).sort(by shooting, descending)[0]; the sort is stable *)
BestShooter(players) ==
    FirstWhere(players,
        {p \in Range(players) :
            /\ p.isOnCourt
            /\ \A i \in 1..Len(players) :
                  players[i].isOnCourt => players[i].shooting <= p.shooting})

simulatePenalty(s, P) ==
    LET possessionTeam == s.ball.possessionTeam
        other == IF possessionTeam = "home" THEN "away" ELSE "home"
        team  == TeamOf(s, possessionTeam)
        taker == BestShooter(team.players)
        gk    == FirstWhere(TeamOf(s, other).players,
                     {p \in Range(TeamOf(s, other).players) :
                         p.position = "GK" /\ p.isOnCourt})
        takerId == team.players[taker].playerId
        penaltyEvent == createEvent(s, "penalty", possessionTeam, takerId)
        Resolve(outcome) ==
            IF outcome = "goal"
            THEN { Out(o.s, <<penaltyEvent>> \o o.ev)
                   : o \in scoreGoal(s, possessionTeam, taker, P) }
            ELSE IF outcome = "saved"
            THEN LET s1 == UpdPlayer(s, other, gk,
                              [TeamOf(s, other).players[gk] EXCEPT !.saves = @ + 1])
                 IN  { Out([s1 EXCEPT !.phase = "save"],
                           <<penaltyEvent,
                             createEvent(s1, "penalty_saved", other,
                                TeamOf(s1, other).players[gk].playerId)>>) }
            ELSE { Out([s EXCEPT !.phase = "goal_kick"],
                       <<penaltyEvent,
                         createEvent(s, "penalty_missed", possessionTeam, takerId)>>) }
    IN  IF taker = 0 \/ gk = 0
        THEN { Out([s EXCEPT !.phase = "open_play"], <<>>) }
        ELSE UNION { Resolve(outcome) : outcome \in P.pen }

simulateOpenPlay(s, P) ==
    LET possessionTeam == s.ball.possessionTeam
        team == TeamOf(s, possessionTeam)
        pw   == FindIndex(team.players, s.ball.possessionPlayer)
        Act(action) ==
            IF action = "pass" THEN executePass(s, possessionTeam, pw, P)
            ELSE IF action = "dribble" THEN executeDribble(s, possessionTeam, pw, P)
            ELSE IF action = "shoot" THEN { Out([s EXCEPT !.phase = "shot"], <<>>) }
            ELSE { Out(c, <<>>) : c \in changePossession(s, P) }
        (* the 2% roll; `opponent` was bound before the action ran *)
        Foul(o) ==
            UNION { IF roll
                    THEN { Out(f.s, o.ev \o f.ev)
                           : f \in checkForFoul(o.s, Other(possessionTeam), P) }
                    ELSE { o }
                    : roll \in P.foulRoll }
    IN  IF possessionTeam = "null" THEN { Out(s, <<>>) }
        ELSE IF pw = 0
        THEN { Out([s EXCEPT !.ball.possessionPlayer = pl], <<>>)
               : pl \in getRandomOutfieldPlayer(s, possessionTeam, P) }
        ELSE UNION { UNION { Foul(o) : o \in Act(action) } : action \in P.action }

simulateAttack(s, P) ==
    LET possessionTeam == s.ball.possessionTeam
        team == TeamOf(s, possessionTeam)
        pw   == FindIndex(team.players, s.ball.possessionPlayer)
    IN  IF pw = 0 THEN { Out(s, <<>>) }
        ELSE UNION { IF shoot THEN { Out([s EXCEPT !.phase = "shot"], <<>>) }
                     ELSE UNION { IF pass THEN executePass(s, possessionTeam, pw, P)
                                  ELSE { Out(s, <<>>) }
                                  : pass \in P.attackPass }
                     : shoot \in P.attackShoot }

(* simulatePhase leaving the ball with the scorer's side after a goal *)
simulatePhase_scorerKicksOff(s, P) ==
    CASE s.phase = "kickoff" -> { Out([s EXCEPT !.phase = "open_play"], <<>>) }
      [] s.phase = "open_play" -> simulateOpenPlay(s, P)
      [] s.phase = "attack" -> simulateAttack(s, P)
      [] s.phase = "shot" -> simulateShot(s, P)
      [] s.phase = "goal_scored" -> { Out([s EXCEPT !.phase = "kickoff"], <<>>) }
      [] s.phase \in {"save", "goal_kick"} ->
            LET defendingTeam == IF s.ball.possessionTeam = "home" THEN "away"
                                 ELSE "home"
            IN  { Out([s EXCEPT !.phase = "open_play",
                                !.ball.possessionTeam = defendingTeam,
                                !.ball.possessionPlayer = getGoalkeeper(s, defendingTeam),
                                !.ball.x = IF defendingTeam = "home" THEN 10 ELSE 90],
                      <<>>) }
      [] s.phase = "corner" -> simulateCorner(s, P)
      [] s.phase = "free_kick" -> simulateFreeKick(s, P)
      [] s.phase = "penalty" -> simulatePenalty(s, P)
      [] s.phase = "foul" -> { Out(handleFoulConsequence(s), <<>>) }
      [] OTHER -> { Out([s EXCEPT !.phase = "open_play"], <<>>) }

simulatePhase(s, P) ==
    CASE s.phase = "kickoff" -> { Out([s EXCEPT !.phase = "open_play"], <<>>) }
      [] s.phase = "open_play" -> simulateOpenPlay(s, P)
      [] s.phase = "attack" -> simulateAttack(s, P)
      [] s.phase = "shot" -> simulateShot(s, P)
      [] s.phase = "goal_scored" ->
            { Out([s EXCEPT !.phase = "kickoff",
                            !.ball.possessionTeam =
                                IF @ = "home" THEN "away" ELSE "home"], <<>>) }
      [] s.phase \in {"save", "goal_kick"} ->
            LET defendingTeam == IF s.ball.possessionTeam = "home" THEN "away"
                                 ELSE "home"
            IN  { Out([s EXCEPT !.phase = "open_play",
                                !.ball.possessionTeam = defendingTeam,
                                !.ball.possessionPlayer = getGoalkeeper(s, defendingTeam),
                                !.ball.x = IF defendingTeam = "home" THEN 10 ELSE 90],
                      <<>>) }
      [] s.phase = "corner" -> simulateCorner(s, P)
      [] s.phase = "free_kick" -> simulateFreeKick(s, P)
      [] s.phase = "penalty" -> simulatePenalty(s, P)
      [] s.phase = "foul" -> { Out(handleFoulConsequence(s), <<>>) }
      [] OTHER -> { Out([s EXCEPT !.phase = "open_play"], <<>>) }

----------------------------------------------------------------------------
(* tick(): every TickResult the policy allows, with the state it leaves.
   `notified` tells whether the subscribers were called. *)

Result(s, events, stateChanged, notified) ==
    [s |-> s, events |-> events, stateChanged |-> stateChanged,
     notified |-> notified]

(* the tick body going on with stamina, positions, power play and the phase
   after the period has ended *)
TickBody_throughPeriodEnd(s, P) ==
    LET pe == checkPeriodEnd(advanceTime(s))
    IN  UNION {
          UNION {
            LET s3 == updatePowerPlay(s2)
                s4 == IF s3.second % AUTO_SUB_INTERVAL = 0
                      THEN checkAutoSubstitutions(s3) ELSE s3
            IN  { Result(o.s, o.ev, TRUE, ~pe.ended) : o \in simulatePhase(s4, P) }
            : s2 \in updatePlayerPositions(s1, P) }
          : s1 \in updatePlayerStamina(pe.s, P) }

(* the tick body checking for automatic substitutions every second *)
TickBody_subsEverySecond(s, P) ==
    LET pe == checkPeriodEnd(advanceTime(s))
    IN  IF pe.ended THEN { Result(pe.s, <<>>, TRUE, FALSE) }
        ELSE UNION {
               UNION {
                 LET s3 == updatePowerPlay(s2)
                     s4 == checkAutoSubstitutions(s3)
                 IN  { Result(o.s, o.ev, TRUE, TRUE) : o \in simulatePhase(s4, P) }
                 : s2 \in updatePlayerPositions(s1, P) }
               : s1 \in updatePlayerStamina(pe.s, P) }

TickBody(s, P) ==
    LET pe == checkPeriodEnd(advanceTime(s))
    IN  IF pe.ended THEN { Result(pe.s, <<>>, TRUE, FALSE) }
        ELSE UNION {
               UNION {
                 LET s3 == updatePowerPlay(s2)
                     s4 == IF s3.second % AUTO_SUB_INTERVAL = 0
                           THEN checkAutoSubstitutions(s3) ELSE s3
                 IN  { Result(o.s, o.ev, TRUE, TRUE) : o \in simulatePhase(s4, P) }
                 : s2 \in updatePlayerPositions(s1, P) }
               : s1 \in updatePlayerStamina(pe.s, P) }

(* tick without the isFullTime half of its guard *)
tick_ignoringFullTime(s, P) ==
    IF s.isPaused THEN { Result(s, <<>>, FALSE, FALSE) } ELSE TickBody(s, P)

(* tick without the isPaused half of its guard *)
tick_ignoringPause(s, P) ==
    IF s.isFullTime THEN { Result(s, <<>>, FALSE, FALSE) } ELSE TickBody(s, P)

tick(s, P) ==
    IF s.isPaused \/ s.isFullTime THEN { Result(s, <<>>, FALSE, FALSE) }
    ELSE TickBody(s, P)

----------------------------------------------------------------------------
(* Draw policies: which outcomes of Math.random() a specification explores *)

(* every discrete roll is free; the continuous draws (stamina loss, movement
   jitter) are pinned to one value and the dribble step to its extremes *)
AllRolls ==
    [ anyPick |-> TRUE,
      staminaLoss |-> {5}, gkJitter |-> {0}, randomX |-> {0},
      action |-> {"pass", "dribble", "shoot", "lose_possession"},
      passOk |-> BOOLEAN, dribbleOk |-> BOOLEAN, dribbleStep |-> {5, 14},
      dribbleFoul |-> BOOLEAN, foulRoll |-> BOOLEAN, card |-> BOOLEAN,
      attackShoot |-> BOOLEAN, attackPass |-> BOOLEAN,
      shot |-> ShotOutcomes, blockedLoose |-> BOOLEAN, wideCorner |-> BOOLEAN,
      assist |-> BOOLEAN, cornerRoll |-> {"shot", "keep", "cleared"},
      fkShot |-> BOOLEAN, pen |-> {"goal", "saved", "missed"} ]

(* an uneventful match: the ball changes sides every second, to the first
   outfield player, and nobody fouls *)
QuietRolls ==
    [ AllRolls EXCEPT !.anyPick = FALSE, !.action = {"lose_possession"},
                      !.foulRoll = {FALSE} ]

----------------------------------------------------------------------------
(* Actions: one per public method of MatchEngine *)

(* `args` holds the player identifiers passed to makeSubstitution *)
Call(op, side, ok, events, notified) ==
    [op |-> op, side |-> side, ok |-> ok, events |-> events, notified |-> notified,
     args |-> <<>>]

Init ==
    /\ \E h \in HomeRosters, a \in AwayRosters : state = initializeMatch(h, a)
    /\ tickCallbacks = 0
    /\ last = Call("new", "null", TRUE, <<>>, 0)
    /\ ticks = 0
    /\ rejected = 0
    /\ returned = <<>>

KickoffWith(P) ==
    /\ \E s2 \in kickoff(state, P) : state' = s2
    /\ last' = Call("kickoff", "null", TRUE, <<>>, 0)
    /\ UNCHANGED <<tickCallbacks, ticks, rejected, returned>>

TickWith(P, cap) ==
    /\ ticks < cap
    /\ \E r \in tick(state, P) :
          /\ state' = r.s
          /\ last' = Call("tick", "null", r.stateChanged, r.events,
                          IF r.notified THEN tickCallbacks ELSE 0)
          /\ rejected' = IF r.stateChanged THEN rejected ELSE rejected + 1
    /\ ticks' = ticks + 1
    /\ UNCHANGED <<tickCallbacks, returned>>

StartSecondHalfWith(P) ==
    /\ \E s2 \in startSecondHalf(state, P) : state' = s2
    /\ last' = Call("startSecondHalf", "null", TRUE, <<>>, 0)
    /\ UNCHANGED <<tickCallbacks, ticks, rejected, returned>>

Pause ==
    /\ state' = pause(state)
    /\ last' = Call("pause", "null", TRUE, <<>>, 0)
    /\ UNCHANGED <<tickCallbacks, ticks, rejected, returned>>

Resume ==
    /\ state' = resume(state)
    /\ last' = Call("resume", "null", TRUE, <<>>, 0)
    /\ UNCHANGED <<tickCallbacks, ticks, rejected, returned>>

OnTick ==
    /\ tickCallbacks < MaxCallbacks
    /\ tickCallbacks' = tickCallbacks + 1
    /\ last' = Call("onTick", "null", TRUE, <<>>, 0)
    /\ UNCHANGED <<state, ticks, rejected, returned>>

(* what a value returned by getState() shows when read now: a reference to
   this.state shows the state as tick() and the manual operations have since
   assigned it in place *)
Deref(r) == IF r.ref = "this.state" THEN state ELSE r.seen

GetState ==
    /\ Len(returned) < MaxSnapshots
    /\ returned' = Append(returned, getState(state))
    /\ last' = Call("getState", "null", TRUE, <<>>, 0)
    /\ UNCHANGED <<state, tickCallbacks, ticks, rejected>>

CallTimeout ==
    \E team \in Sides :
       LET r == callTimeout(state, team)
       IN  /\ state' = r.s
           /\ last' = Call("callTimeout", team, r.ok, <<>>, 0)
           /\ UNCHANGED <<tickCallbacks, ticks, rejected, returned>>

(* identifiers a caller may pass: the last player on court, the first of
   the bench, and one unknown to the team *)
SubIds(team) ==
    LET t == TeamOf(state, team)
    IN  {"zz"} \cup (IF Len(t.onCourt) > 0 THEN {t.onCourt[Len(t.onCourt)]} ELSE {})
               \cup (IF Len(t.bench) > 0 THEN {t.bench[1]} ELSE {})

MakeSubstitution ==
    \E team \in Sides :
       \E outPlayerId \in SubIds(team), inPlayerId \in SubIds(team) :
          LET r == makeSubstitution(state, team, outPlayerId, inPlayerId)
          IN  /\ state' = r.s
              /\ last' = [Call("makeSubstitution", team, r.ok, <<>>, 0)
                            EXCEPT !.args = <<outPlayerId, inPlayerId>>]
              /\ UNCHANGED <<tickCallbacks, ticks, rejected, returned>>

ActivateFlyingGoalkeeper ==
    \E team \in Sides :
       LET r == activateFlyingGoalkeeper(state, team)
       IN  /\ state' = r.s
           /\ last' = Call("activateFlyingGoalkeeper", team, r.ok, <<>>, 0)
           /\ UNCHANGED <<tickCallbacks, ticks, rejected, returned>>

----------------------------------------------------------------------------
(* Spec: the first seconds of a match under any sequence of public calls.
   No call is guarded beyond the method's own conditions; at most MaxTicks
   tick() calls are made and the event log holds at most MaxEvents events. *)

(* the ball carrier shoots or loses the ball, shots are on target, a foul
   may be called in open play, no card is shown *)
PlayRolls ==
    [ AllRolls EXCEPT !.anyPick = FALSE, !.action = {"shoot", "lose_possession"},
                      !.shot = {"goal", "saved"}, !.assist = {FALSE},
                      !.card = {FALSE}, !.pen = {"goal"} ]

LogWithin(n) == Len(state'.events) <= n

Kickoff == KickoffWith(PlayRolls) /\ LogWithin(MaxEvents)

Tick == TickWith(PlayRolls, MaxTicks) /\ LogWithin(MaxEvents)

StartSecondHalf == StartSecondHalfWith(PlayRolls)

Next ==
    \/ Kickoff
    \/ Tick
    \/ StartSecondHalf
    \/ Pause
    \/ Resume
    \/ OnTick

Spec == Init /\ [][Next]_vars

----------------------------------------------------------------------------
(* SpecMatch: a whole match as the store drives it (matchStore.ts:122-172,
   Match.tsx:408-421): kickoff() once, tick() while the match is on,
   startSecondHalf() during the break.  The rolls are the quiet ones.  The
   second half starts after at most MaxIdleTicks rejected ticks, or never. *)

HalfTicks == HALF_DURATION_MINUTES * SECONDS_PER_MINUTE

(* seconds played in the current period *)
Elapsed == state.minute * SECONDS_PER_MINUTE + state.second

FullMatchTicks == 2 * HalfTicks

EventsWithin(n) == Len(state'.events) <= n

MatchKickoff ==
    /\ state.period = 0
    /\ KickoffWith(QuietRolls)
    /\ EventsWithin(MaxMatchEvents)

MatchTick ==
    /\ state.period > 0
    /\ TickWith(QuietRolls, FullMatchTicks + MaxIdleTicks)
    /\ EventsWithin(MaxMatchEvents)

MatchSecondHalf ==
    /\ state.isHalfTime /\ ~state.isFullTime
    /\ ticks <= HalfTicks + MaxIdleTicks
    /\ StartSecondHalfWith(QuietRolls)

MatchResume ==
    /\ state.isHalfTime \/ state.isFullTime
    /\ ticks <= HalfTicks + MaxIdleTicks \/ state.isFullTime
    /\ Resume
    /\ EventsWithin(MaxMatchEvents)

MatchOnTick == state.period = 0 /\ OnTick

NextMatch ==
    \/ MatchKickoff
    \/ MatchTick
    \/ MatchSecondHalf
    \/ MatchOnTick

MatchRosters == { <<HomeSquad, AwaySquad>>, <<HomeFive, AwayFive>> }

InitMatch ==
    /\ \E r \in MatchRosters : state = initializeMatch(r[1], r[2])
    /\ tickCallbacks = 0
    /\ last = Call("new", "null", TRUE, <<>>, 0)
    /\ ticks = 0
    /\ rejected = 0
    /\ returned = <<>>

SpecMatch == InitMatch /\ [][NextMatch]_vars

(* SpecBreak: SpecMatch with resume() also pressed during the break and
   after the final whistle *)
NextBreak ==
    \/ MatchKickoff
    \/ MatchTick
    \/ MatchSecondHalf
    \/ MatchResume
    \/ MatchOnTick

SpecBreak == InitMatch /\ [][NextBreak]_vars

----------------------------------------------------------------------------
(* SpecShoot: play from the kick-off in which every ball carrier decides to
   shoot, every shot is a goal and no foul is called; the players picked at
   random (kick-off, restart, assist) are free *)

ShootRolls ==
    [ AllRolls EXCEPT !.action = {"shoot"}, !.shot = {"goal"},
                      !.foulRoll = {FALSE}, !.attackShoot = {TRUE} ]

ShootKickoff == state.period = 0 /\ KickoffWith(ShootRolls)

ShootTick == state.period > 0 /\ TickWith(ShootRolls, MaxShootTicks)

ShootOnTick == state.period = 0 /\ OnTick

NextShoot ==
    \/ ShootKickoff
    \/ ShootTick
    \/ ShootOnTick

SpecShoot == InitMatch /\ [][NextShoot]_vars

----------------------------------------------------------------------------
(* SpecFouls: a match driven as in SpecMatch in which fouls are called
   during the last FoulLeadIn seconds of the first half and during the
   first MaxSecondHalfTicks seconds of the second half, where the run stops *)

(* the carrier loses the ball or is fouled in a failed dribble, and the
   open-play foul roll is free; no card, free kicks are played short *)
FoulRolls ==
    [ QuietRolls EXCEPT !.action = {"lose_possession", "dribble"},
                        !.dribbleOk = {FALSE}, !.dribbleFoul = {TRUE},
                        !.foulRoll = BOOLEAN, !.card = {FALSE},
                        !.fkShot = {FALSE}, !.pen = {"goal", "missed"} ]

FoulsLive == state.period = 2 \/ Elapsed >= HalfTicks - FoulLeadIn

FoulKickoff == state.period = 0 /\ KickoffWith(QuietRolls)

FoulTick ==
    /\ state.period > 0 /\ ~state.isPaused
    /\ IF FoulsLive THEN TickWith(FoulRolls, HalfTicks + MaxSecondHalfTicks)
                    ELSE TickWith(QuietRolls, HalfTicks + MaxSecondHalfTicks)

FoulSecondHalf ==
    /\ state.isHalfTime /\ ~state.isFullTime
    /\ StartSecondHalfWith(QuietRolls)

NextFouls ==
    \/ FoulKickoff
    \/ FoulTick
    \/ FoulSecondHalf

SpecFouls == InitMatch /\ [][NextFouls]_vars

----------------------------------------------------------------------------
(* SpecTimeouts: a quiet match driven as in SpecMatch in which either side
   may call a timeout during the last TimeoutWindow seconds of the first
   half and during the first TimeoutWindow seconds of the second half, where
   the run stops; play is resumed after a timeout *)

TimeoutsLive == state.period = 2 \/ Elapsed >= HalfTicks - TimeoutWindow

TimeoutKickoff == state.period = 0 /\ KickoffWith(QuietRolls)

TimeoutTick ==
    /\ state.period > 0 /\ ~state.isPaused
    /\ TickWith(QuietRolls, HalfTicks + TimeoutWindow)

TimeoutSecondHalf ==
    /\ state.isHalfTime /\ ~state.isFullTime
    /\ StartSecondHalfWith(QuietRolls)

TimeoutCall ==
    /\ state.period > 0 /\ ~state.isHalfTime /\ TimeoutsLive
    /\ CallTimeout

TimeoutResume == state.isPaused /\ ~state.isHalfTime /\ state.period > 0 /\ Resume

NextTimeouts ==
    \/ TimeoutKickoff
    \/ TimeoutTick
    \/ TimeoutSecondHalf
    \/ TimeoutCall
    \/ TimeoutResume

SpecTimeouts == InitMatch /\ [][NextTimeouts]_vars

----------------------------------------------------------------------------
(* SpecSubs: the first MaxSubTicks seconds of a quiet match in which either
   bench may be used at any moment, before the kick-off included, with valid
   and invalid identifiers, until MaxSubs substitutions have been made *)

SubsMade == state.home.substitutionsUsed + state.away.substitutionsUsed

SubKickoff == state.period = 0 /\ KickoffWith(QuietRolls)

SubTick == state.period > 0 /\ TickWith(QuietRolls, MaxSubTicks)

SubMake == SubsMade < MaxSubs /\ MakeSubstitution

NextSubs ==
    \/ SubKickoff
    \/ SubTick
    \/ SubMake

SpecSubs == InitMatch /\ [][NextSubs]_vars

----------------------------------------------------------------------------
(* SpecCards: a match in which fouls are called and cards shown during the
   first CardWindow seconds; play is quiet afterwards and runs until
   PowerPlayTail seconds after a power play started in the window is over *)

(* the carrier loses the ball or is fouled in a failed dribble; the
   open-play foul roll and the card roll are free; the fouler is the first
   player the opponent has on court; free kicks are played short *)
CardRolls ==
    [ QuietRolls EXCEPT !.action = {"lose_possession", "dribble"},
                        !.dribbleOk = {FALSE}, !.dribbleFoul = {TRUE},
                        !.foulRoll = BOOLEAN, !.card = BOOLEAN,
                        !.fkShot = {FALSE} ]

CardsLive == ticks < CardWindow

CardKickoff == state.period = 0 /\ KickoffWith(QuietRolls)

CardTick ==
    /\ state.period > 0
    /\ IF CardsLive
       THEN TickWith(CardRolls, CardWindow + POWER_PLAY_SECONDS + PowerPlayTail)
       ELSE TickWith(QuietRolls, CardWindow + POWER_PLAY_SECONDS + PowerPlayTail)

NextCards ==
    \/ CardKickoff
    \/ CardTick

SpecCards == InitMatch /\ [][NextCards]_vars

----------------------------------------------------------------------------
(* SpecSnapshot: SpecSubs with a reader that calls getState() at some moment
   and keeps what it was given *)

SnapKickoff == state.period = 0 /\ KickoffWith(QuietRolls)

SnapTick == state.period > 0 /\ TickWith(QuietRolls, MaxSubTicks)

SnapMake == SubsMade < MaxSubs /\ MakeSubstitution

NextSnapshot ==
    \/ SnapKickoff
    \/ SnapTick
    \/ SnapMake
    \/ GetState

SpecSnapshot == InitMatch /\ [][NextSnapshot]_vars

Phases == {"kickoff", "open_play", "attack", "shot", "goal_scored", "save",
           "goal_kick", "corner", "free_kick", "penalty", "foul"}

TypeOK ==
    /\ state.phase \in Phases
    /\ state.period \in 0..2
    /\ state.ball.possessionTeam \in Sides \cup {"null"}
    /\ tickCallbacks \in 0..MaxCallbacks

----------------------------------------------------------------------------
(* Properties of the match clock (SpecMatch, SpecBreak) *)

AtTwentyMinutes == state.minute = HALF_DURATION_MINUTES /\ state.second = 0

CountEvents(type) ==
    Cardinality({ i \in 1..Len(state.events) : state.events[i].type = type })

(* C1: after kickoff() at 00:00, the first 1200 tick() calls each advance the
   clock by one second; the 1200th sets isHalfTime with the clock at 20:00 of
   period 1, and every further tick() made before another operation leaves
   the clock there.  (In SpecMatch period = 1 says that nothing but tick()
   was called since kickoff().) *)
C1_HalfDuration ==
    state.period = 1 =>
       /\ ticks < HalfTicks => (~state.isHalfTime /\ Elapsed = ticks)
       /\ ticks >= HalfTicks => (state.isHalfTime /\ AtTwentyMinutes)

C1_Witness ==
    /\ state.period = 1 /\ ticks > HalfTicks
    /\ state.isHalfTime /\ AtTwentyMinutes
    /\ last.op = "tick" /\ ~last.ok

FinalWhistle ==
    /\ state.isFullTime
    /\ state.period = 2
    /\ AtTwentyMinutes
    /\ CountEvents("period_end") >= 1
    /\ CountEvents("match_end") = 1

FiveASide == Len(state.home.players) = 5 /\ Len(state.away.players) = 5

(* C2 as claimed: with two rosters of five, kickoff() and then 2400 tick()
   calls with no other operation (no startSecondHalf(), so the period is
   still below 2) end at full time of period 2 with at least one period_end
   and exactly one match_end event in the log *)
C2_Claimed ==
    (FiveASide /\ ticks = FullMatchTicks /\ state.period < 2 /\ last.op = "tick") =>
        /\ state.period = 2
        /\ state.isFullTime
        /\ AtTwentyMinutes
        /\ CountEvents("period_end") >= 1
        /\ CountEvents("match_end") = 1

(* C2 amended: kickoff(), 1200 tick() calls, startSecondHalf() and 1200 more
   tick() calls, 2400 ticks none of which was rejected, end with
   isFullTime, period 2, the clock at 20:00, at least one period_end event
   and exactly one match_end event *)
C2_FullMatch ==
    (ticks = FullMatchTicks /\ rejected = 0 /\ state.period = 2) => FinalWhistle

C2_Witness ==
    /\ FiveASide
    /\ ticks = FullMatchTicks /\ rejected = 0 /\ state.period = 2
    /\ last.op = "tick"
    /\ FinalWhistle

LexLeq(a, b) ==
    \/ a.period < b.period
    \/ a.period = b.period /\ a.minute < b.minute
    \/ a.period = b.period /\ a.minute = b.minute /\ a.second <= b.second

(* C3: until full time no step lowers (period, minute, second) in
   lexicographic order (tick() advances it, startSecondHalf() at half-time
   moves to period 2); once isFullTime holds a tick() changes nothing of the
   state: clock, score, phase and event log stay as they are *)
C3_ClockMonotone ==
    [][ /\ ~state.isFullTime => LexLeq(state, state')
        /\ (state.isFullTime /\ last'.op = "tick") =>
              /\ state' = state
              /\ ~last'.ok ]_vars

C3_Witness ==
    /\ state.isFullTime /\ ~state.isPaused
    /\ last.op = "tick" /\ ~last.ok

(* C4: a tick() called while isPaused or isFullTime holds changes no field
   of the match state, calls no subscriber and returns events = [] with
   stateChanged = false *)
C4_RejectedTick ==
    [][ (last'.op = "tick" /\ (state.isPaused \/ state.isFullTime)) =>
           /\ state' = state
           /\ last'.events = <<>>
           /\ ~last'.ok
           /\ last'.notified = 0
           /\ rejected' = rejected + 1 ]_vars

C4_Witness ==
    /\ last.op = "tick" /\ ~last.ok
    /\ state.isPaused /\ state.isHalfTime
    /\ tickCallbacks > 0
    /\ rejected > 0

----------------------------------------------------------------------------
(* Properties of scoring (Spec, SpecShoot) *)

GoalsOf(s, side) == IF side = "home" THEN s.homeGoals ELSE s.awayGoals

(* the events of one type in a state's event log, in order *)
Logged(s, type) == SelectSeq(s.events, LAMBDA e : e.type = type)

(* the player of `side` whose goal tally a step raised *)
Scored(side, id) ==
    \E i \in 1..Len(TeamOf(state, side).players) :
       /\ TeamOf(state, side).players[i].playerId = id
       /\ TeamOf(state', side).players[i].goals =
             TeamOf(state, side).players[i].goals + 1

(* C5: homeGoals and awayGoals never decrease; a step that raises one of
   them raises it by one and appends exactly one goal event, carrying the
   scoring side and the scoring player, to state.events; a step that raises
   neither appends no goal event *)
C5_GoalLogged ==
    [][ /\ \A side \in Sides : GoalsOf(state', side) >= GoalsOf(state, side)
        /\ \A side \in Sides :
              GoalsOf(state', side) > GoalsOf(state, side) =>
                 /\ GoalsOf(state', side) = GoalsOf(state, side) + 1
                 /\ Len(Logged(state', "goal")) = Len(Logged(state, "goal")) + 1
                 /\ LET e == state'.events[Len(state'.events)]
                    IN  e.type = "goal" /\ e.teamId = side /\ Scored(side, e.playerId)
        /\ (\A side \in Sides : GoalsOf(state', side) = GoalsOf(state, side)) =>
              Logged(state', "goal") = Logged(state, "goal") ]_vars

(* a completed tick that ran the open-play logic for a ball carrier *)
OpenPlayTick ==
    /\ last'.op = "tick" /\ last'.ok /\ ~state'.isPaused
    /\ state.phase = "open_play"
    /\ state.ball.possessionTeam \in Sides
    /\ FindIndex(TeamOf(state, state.ball.possessionTeam).players,
                 state.ball.possessionPlayer) > 0

(* C6: with the carrier's action forced to shoot and every shot forced to
   convert (SpecShoot), one tick() in open play raises the shooting side's
   goal counter by one and appends exactly one goal event stamped with that
   tick's minute and second *)
C6_GoalInOneTick ==
    [][ OpenPlayTick =>
           LET side == state.ball.possessionTeam
           IN  /\ GoalsOf(state', side) = GoalsOf(state, side) + 1
               /\ Len(Logged(state', "goal")) = Len(Logged(state, "goal")) + 1
               /\ LET e == state'.events[Len(state'.events)]
                  IN  /\ e.type = "goal" /\ e.teamId = side
                      /\ e.minute = state'.minute /\ e.second = state'.second ]_vars

----------------------------------------------------------------------------
(* Properties of accumulated fouls (Spec, SpecFouls) *)

Fouls(s, side) == TeamOf(s, side).accumulatedFouls

(* C7: a team's accumulatedFouls is lowered by no step other than the tick
   that reaches half-time, and when startSecondHalf() returns both teams'
   accumulatedFouls are 0 *)
C7_FoulsPerHalf ==
    [][ /\ \A side \in Sides :
              Fouls(state', side) < Fouls(state, side) =>
                 (last'.op = "tick" /\ state'.isHalfTime /\ ~state.isHalfTime)
        /\ last'.op = "startSecondHalf" =>
              \A side \in Sides : Fouls(state', side) = 0 ]_vars

(* a completed tick that resolved the foul phase *)
FoulResolved ==
    /\ last'.op = "tick" /\ last'.ok /\ ~state'.isPaused
    /\ state.phase = "foul"

(* C8: when a tick resolves the foul phase, the side charged with the foul
   (the side not in possession) having more than 5 accumulated fouls makes
   the next phase penalty and appends one accumulated_foul_penalty event to
   the log; with 5 or fewer the next phase is free_kick and no such event
   is appended *)
C8_FoulRouting ==
    [][ FoulResolved =>
           LET foulingTeam == Other(state.ball.possessionTeam)
               before == Logged(state, "accumulated_foul_penalty")
               after  == Logged(state', "accumulated_foul_penalty")
           IN  IF Fouls(state, foulingTeam) > 5
               THEN /\ state'.phase = "penalty"
                    /\ Len(after) = Len(before) + 1
                    /\ state'.events[Len(state'.events)].type =
                          "accumulated_foul_penalty"
               ELSE /\ state'.phase = "free_kick"
                    /\ after = before ]_vars

(* the sixth foul of the second half was routed to a penalty although the
   side had been charged with fouls in the first half too *)
C8_Witness ==
    /\ state.period = 2 /\ state.phase = "penalty" /\ last.op = "tick"
    /\ \E side \in Sides :
          /\ Fouls(state, side) = ACCUMULATED_FOULS_PENALTY + 1
          /\ state.stats.fouls[side] > Fouls(state, side)
          /\ state.ball.possessionTeam = Other(side)
    /\ Len(state.events) > 0
    /\ state.events[Len(state.events)].type = "accumulated_foul_penalty"
    /\ state.events[Len(state.events)].period = 2

----------------------------------------------------------------------------
(* Properties of the line-up and of manual operations *)

NoDuplicates(seq) == \A i, j \in 1..Len(seq) : seq[i] = seq[j] => i = j

(* a completed tick or a manual operation has just returned *)
AfterOperation ==
    \/ last.op = "tick" /\ last.ok
    \/ last.op \in {"kickoff", "startSecondHalf", "pause", "resume",
                    "callTimeout", "makeSubstitution", "activateFlyingGoalkeeper"}

(* C9: for rosters of at least 5 players, after every completed tick() and
   every manual operation each team's onCourt holds 4 or 5 identifiers,
   none twice *)
C9_FourOrFiveOnCourt ==
    (/\ AfterOperation
     /\ \A side \in Sides : Len(TeamOf(state, side).players) >= 5) =>
        \A side \in Sides :
           /\ Len(TeamOf(state, side).onCourt) \in 4..5
           /\ NoDuplicates(TeamOf(state, side).onCourt)

(* timeouts the log holds for a side in a period *)
TimeoutsIn(s, side, period) ==
    Len(SelectSeq(s.events, LAMBDA e :
           e.type = "timeout" /\ e.teamId = side /\ e.period = period))

(* C10: the first callTimeout(side) of a half returns true, takes
   timeoutsUsed to 1, sets isPaused and appends one timeout event; a further
   call in the same half returns false and changes nothing, timeoutsUsed
   staying 1 *)
C10_TimeoutPerHalf ==
    [][ last'.op = "callTimeout" =>
           LET side == last'.side
           IN  IF TimeoutsIn(state, side, state.period) = 0
               THEN /\ last'.ok
                    /\ TeamOf(state', side).timeoutsUsed = 1
                    /\ state'.isPaused
                    /\ Len(state'.events) = Len(state.events) + 1
                    /\ TimeoutsIn(state', side, state.period) = 1
               ELSE /\ ~last'.ok
                    /\ TeamOf(state', side).timeoutsUsed = 1
                    /\ state' = state ]_vars

(* C11: the quota is one timeout per half: callTimeout(side) returns true
   whenever the log holds no timeout of that side in the current period, in
   particular in the second half after a first-half timeout *)
C11_TimeoutEachHalf ==
    [][ (/\ last'.op = "callTimeout"
         /\ state.period = 2
         /\ TimeoutsIn(state, last'.side, 2) = 0
         /\ TimeoutsIn(state, last'.side, 1) = 1) => last'.ok ]_vars

----------------------------------------------------------------------------
(* Properties of substitutions (SpecSubs) *)

(* C12: makeSubstitution(side, outId, inId) with outId not on court or inId
   not on the bench returns false and leaves the whole match state, and so
   onCourt, bench, every isOnCourt flag and position, substitutionsUsed and
   the event log, unchanged *)
C12_RejectedSubstitution ==
    [][ last'.op = "makeSubstitution" =>
           LET team == TeamOf(state, last'.side)
           IN  (\/ ~Includes(team.onCourt, last'.args[1])
                \/ ~Includes(team.bench, last'.args[2]))
               => (~last'.ok /\ state' = state) ]_vars

(* a call naming a player on court and an incoming player who is not on the
   bench has been refused in a running match *)
C12_Witness ==
    /\ last.op = "makeSubstitution" /\ ~last.ok
    /\ state.period = 1 /\ ticks > 0
    /\ Includes(TeamOf(state, last.side).onCourt, last.args[1])
    /\ ~Includes(TeamOf(state, last.side).bench, last.args[2])
    /\ Len(TeamOf(state, last.side).bench) > 0

(* C13: a successful makeSubstitution(side, outId, inId) moves outId from
   onCourt to bench and inId from bench to onCourt, keeps the size of
   onCourt, puts the incoming player at the outgoing player's position,
   appends exactly one substitution event and leaves the other team alone *)
C13_Substitution ==
    [][ (last'.op = "makeSubstitution" /\ last'.ok) =>
           LET side   == last'.side
               out    == last'.args[1]
               in     == last'.args[2]
               before == TeamOf(state, side)
               after  == TeamOf(state', side)
               o      == FindIndex(before.players, out)
               n      == FindIndex(before.players, in)
           IN  /\ Includes(before.onCourt, out) /\ Includes(before.bench, in)
               /\ ~Includes(after.onCourt, out) /\ Includes(after.bench, out)
               /\ Includes(after.onCourt, in) /\ ~Includes(after.bench, in)
               /\ Len(after.onCourt) = Len(before.onCourt)
               /\ Len(after.bench) = Len(before.bench)
               /\ o > 0 /\ n > 0
               /\ after.players[n].posX = before.players[o].posX
               /\ after.players[n].isOnCourt /\ ~after.players[o].isOnCourt
               /\ state'.events =
                     Append(state.events,
                            createEvent(state, "substitution", side, in))
               /\ TeamOf(state', Other(side)) = TeamOf(state, Other(side)) ]_vars

(* a substitution has been made after play moved the players, the incoming
   player standing where the outgoing one stood and not where the bench is *)
C13_Witness ==
    /\ last.op = "makeSubstitution" /\ last.ok
    /\ state.period = 1 /\ ticks > 0
    /\ LET team == TeamOf(state, last.side)
           n    == FindIndex(team.players, last.args[2])
       IN  /\ team.players[n].isOnCourt
           /\ team.players[n].posX /= getInitialPosition(0, last.side = "home")

----------------------------------------------------------------------------
(* Properties of cards and power plays (SpecCards) *)

(* the side whose roster holds the player *)
OwnerOf(id) ==
    CHOOSE side \in Sides : FindIndex(TeamOf(state, side).players, id) > 0

(* the sending-off events the last tick returned *)
SendOffs(call) ==
    SelectSeq(call.events, LAMBDA e : e.type \in {"second_yellow", "red_card"})

(* C14: a second_yellow event is emitted only for a player whose team had 5
   on court; that tick removes the player from the team's onCourt, leaving
   4, sets the team's powerPlaySecondsRemaining to 120 and its
   sentOffPlayerId to the player; a team with only 4 on court loses nobody *)
C14_SecondYellow ==
    [][ last'.op = "tick" =>
          /\ \A k \in 1..Len(SendOffs(last')) :
                LET id     == SendOffs(last')[k].playerId
                    side   == OwnerOf(id)
                    before == TeamOf(state, side)
                    after  == TeamOf(state', side)
                IN  /\ Len(before.onCourt) = 5
                    /\ Includes(before.onCourt, id)
                    /\ ~Includes(after.onCourt, id)
                    /\ Len(after.onCourt) = 4
                    /\ after.powerPlaySecondsRemaining = POWER_PLAY_SECONDS
                    /\ after.sentOffPlayerId = id
          /\ \A side \in Sides :
                Len(TeamOf(state, side).onCourt) <= 4 =>
                   /\ Len(TeamOf(state', side).onCourt) >= Len(TeamOf(state, side).onCourt)
                   /\ (TeamOf(state, side).powerPlaySecondsRemaining = 0 =>
                          TeamOf(state', side).powerPlaySecondsRemaining = 0) ]_vars

(* the roster entry is that of a player who has been sent off: booked, off
   the court and not on the bench *)
Dismissed(team, p) ==
    p.hasYellowCard /\ ~p.isOnCourt /\ ~Includes(team.bench, p.playerId)

(* C15: a player for whom a sending-off event has been emitted, in the last
   tick or earlier, is not in their team's onCourt *)
C15_SentOffStaysOff ==
    \A side \in Sides :
       LET team == TeamOf(state, side)
       IN  \A i \in 1..Len(team.players) :
              LET p == team.players[i]
              IN  (\/ Dismissed(team, p)
                   \/ \E k \in 1..Len(SendOffs(last)) :
                         SendOffs(last)[k].playerId = p.playerId)
                  => (~Includes(team.onCourt, p.playerId) /\ ~p.isOnCourt)

(* the tick ran past the period-end check *)
CompletedTick == last'.op = "tick" /\ last'.ok /\ ~state'.isPaused

(* C16: each completed tick takes 1 off a running powerPlaySecondsRemaining
   (a new sending-off sets it back to 120); when it reaches 0 with fewer than
   5 on court the first bench player in roster order other than the sent-off
   one comes on; powerPlaySecondsRemaining = 0 implies sentOffPlayerId = null *)
C16_PowerPlay ==
    [][ /\ \A side \in Sides :
             TeamOf(state', side).powerPlaySecondsRemaining = 0 =>
                TeamOf(state', side).sentOffPlayerId = "null"
        /\ CompletedTick =>
             \A side \in Sides :
                LET before == TeamOf(state, side)
                    after  == TeamOf(state', side)
                    left   == before.powerPlaySecondsRemaining
                    cands  == SelectSeq(before.players,
                                 LAMBDA p : /\ Includes(before.bench, p.playerId)
                                            /\ p.playerId /= before.sentOffPlayerId)
                IN  left > 0 =>
                      /\ after.powerPlaySecondsRemaining \in {left - 1, POWER_PLAY_SECONDS}
                      /\ (left = 1 /\ Len(before.onCourt) < 5 /\ Len(cands) > 0) =>
                            (/\ Includes(after.onCourt, cands[1].playerId)
                             /\ ~Includes(after.bench, cands[1].playerId)) ]_vars

----------------------------------------------------------------------------
(* Properties of the observers: subscribers, getState() and the event log *)

(* C17: a tick() that is not rejected, the one that reaches half-time or
   full time included, calls each registered subscriber once; a rejected
   tick calls none *)
C17_EveryTickNotifies ==
    [][ last'.op = "tick" =>
           last'.notified = (IF last'.ok THEN tickCallbacks ELSE 0) ]_vars

(* C18: a value returned by getState() keeps showing the state as it was
   when it was returned, whatever tick() and the manual operations do later *)
C18_IndependentSnapshot ==
    \A k \in 1..Len(returned) : Deref(returned[k]) = returned[k].seen

(* the (minute, second) stamp of a does not come after that of b *)
ClockLeq(a, b) ==
    \/ a.minute < b.minute
    \/ a.minute = b.minute /\ a.second <= b.second

(* C19 as claimed: the events of the log are in non-decreasing
   (minute, second) order of their stamps, both halves included *)
C19_Claimed ==
    \A i, j \in 1..Len(state.events) :
       i < j => ClockLeq(state.events[i], state.events[j])

(* C19: the events of the log are in non-decreasing (period, minute, second)
   order of their stamps *)
C19_EventOrder ==
    \A i, j \in 1..Len(state.events) :
       i < j => LexLeq(state.events[i], state.events[j])

(* the log holds the half-time event of period 1 followed by a timeout
   called in the first seconds of period 2 *)
C19_Witness ==
    \E i, j \in 1..Len(state.events) :
       /\ i < j
       /\ state.events[i].type = "period_end" /\ state.events[i].period = 1
       /\ state.events[i].minute = HALF_DURATION_MINUTES
       /\ state.events[j].type = "timeout" /\ state.events[j].period = 2
       /\ state.events[j].minute = 0

----------------------------------------------------------------------------
(* The tick that ends a period (SpecFouls, SpecMatch) *)

(* the tick that takes the clock from 19:59 to 20:00 *)
PeriodEndTick ==
    /\ last'.op = "tick" /\ last'.ok
    /\ state.minute = HALF_DURATION_MINUTES - 1
    /\ state.second = SECONDS_PER_MINUTE - 1

(* the state without what the period-end handling is claimed to change *)
BesidesPeriodEnd(s) ==
    [s EXCEPT !.minute = 0, !.second = 0,
              !.isHalfTime = FALSE, !.isFullTime = FALSE, !.isPaused = FALSE,
              !.home.accumulatedFouls = 0, !.away.accumulatedFouls = 0,
              !.events = <<>>]

(* the same without the minutes played *)
BesidesMinutes(s) ==
    LET Zero(team) ==
           [team EXCEPT !.players =
               [i \in 1..Len(team.players) |->
                   [team.players[i] EXCEPT !.minutesPlayed = 0]]]
    IN  [BesidesPeriodEnd(s) EXCEPT !.home = Zero(@), !.away = Zero(@)]

(* the clock is at 20:00, the period's flag and isPaused are set, one
   period_end or match_end event is appended, and the accumulated fouls are
   0 after the first half and untouched after the second *)
PeriodEndHandled ==
    /\ state'.minute = HALF_DURATION_MINUTES /\ state'.second = 0
    /\ state'.isPaused
    /\ state'.period = state.period
    /\ Len(state'.events) = Len(state.events) + 1
    /\ SubSeq(state'.events, 1, Len(state.events)) = state.events
    /\ IF state.period = 1
       THEN /\ state'.isHalfTime /\ ~state'.isFullTime
            /\ state'.events[Len(state'.events)].type = "period_end"
            /\ \A side \in Sides : Fouls(state', side) = 0
       ELSE /\ state'.isFullTime
            /\ state'.events[Len(state'.events)].type = "match_end"
            /\ \A side \in Sides : Fouls(state', side) = Fouls(state, side)

(* C20 as claimed: the tick that reaches 20:00 changes only the clock, the
   isHalfTime/isFullTime/isPaused flags, the accumulated fouls at half-time
   and the event log, by one period_end or match_end event *)
C20_Claimed ==
    [][ PeriodEndTick =>
           (PeriodEndHandled /\ BesidesPeriodEnd(state') = BesidesPeriodEnd(state))
      ]_vars

(* C20: the tick that reaches 20:00 changes only the clock, the flags, the
   accumulated fouls at half-time, the event log (one period_end or match_end
   event) and minutesPlayed, which rises by 1 for the players on court; the
   phase, ball, score, stamina, positions, power-play timers, onCourt, bench
   and statistics stay as they were *)
C20_PeriodEndOnly ==
    [][ PeriodEndTick =>
          /\ PeriodEndHandled
          /\ BesidesMinutes(state') = BesidesMinutes(state)
          /\ \A side \in Sides :
                \A i \in 1..Len(TeamOf(state, side).players) :
                   TeamOf(state', side).players[i].minutesPlayed =
                      TeamOf(state, side).players[i].minutesPlayed
                      + (IF Includes(TeamOf(state, side).onCourt,
                                     TeamOf(state, side).players[i].playerId)
                         THEN 1 ELSE 0) ]_vars

(* half-time has just been reached in a first half in which fouls were
   called, and the players on court have their twentieth minute *)
C20_Witness ==
    /\ last.op = "tick" /\ last.ok
    /\ AtTwentyMinutes /\ state.isHalfTime /\ state.period = 1
    /\ state.stats.fouls.home + state.stats.fouls.away > 0
    /\ state.phase \in {"foul", "free_kick"}
    /\ \E i \in 1..Len(state.home.players) :
          state.home.players[i].minutesPlayed = HALF_DURATION_MINUTES

----------------------------------------------------------------------------
(* SpecFlying: the first MaxFlyTicks seconds of a match with a foul and a
   booking in which either side may send its goalkeeper forward at any
   moment, call a timeout in running play and use its bench once, play being
   resumed after a timeout, and in which startSecondHalf() may be called at
   any moment of the first period after the first tick *)

(* every carrier fails a dribble, is fouled, and the fouler is booked *)
FlyTick ==
    /\ state.period > 0
    /\ TickWith([CardRolls EXCEPT !.action = {"dribble"}, !.foulRoll = {FALSE},
                                  !.card = {TRUE}], MaxFlyTicks)

FlyTimeout == state.period > 0 /\ ~state.isPaused /\ CallTimeout

FlyResume == state.period > 0 /\ state.isPaused /\ Resume

FlySecondHalf == state.period = 1 /\ ticks > 0 /\ StartSecondHalfWith(QuietRolls)

(* one use of a bench, before the kick-off or in play *)
FlySub == SubsMade = 0 /\ ~(state.period > 0 /\ state.isPaused) /\ MakeSubstitution

NextFlying ==
    \/ SubKickoff
    \/ FlyTick
    \/ FlyTimeout
    \/ FlyResume
    \/ FlySecondHalf
    \/ FlySub
    \/ ActivateFlyingGoalkeeper

SpecFlying == InitMatch /\ [][NextFlying]_vars

FlyingGK(s, side) == TeamOf(s, side).isUsingFlyingGK

(* C21: activateFlyingGoalkeeper(side) called with the side's flag unset
   returns true and changes nothing but that flag, which it sets; called
   with the flag set it returns false and changes nothing.  No step of any
   kind clears a flag that is set, and a flag changes only in a call of
   activateFlyingGoalkeeper for its own side *)
C21_FlyingGoalkeeper ==
    [][ /\ last'.op = "activateFlyingGoalkeeper" =>
              IF FlyingGK(state, last'.side)
              THEN ~last'.ok /\ state' = state
              ELSE /\ last'.ok
                   /\ state' = WithTeam(state, last'.side,
                                 [TeamOf(state, last'.side)
                                    EXCEPT !.isUsingFlyingGK = TRUE])
        /\ \A side \in Sides :
              /\ FlyingGK(state, side) => FlyingGK(state', side)
              /\ FlyingGK(state', side) /= FlyingGK(state, side) =>
                    (last'.op = "activateFlyingGoalkeeper" /\ last'.side = side) ]_vars

C21_Witness ==
    /\ last.op = "activateFlyingGoalkeeper" /\ last.side = "home" /\ ~last.ok
    /\ FlyingGK(state, "home") /\ ~FlyingGK(state, "away")
    /\ state.period = 2 /\ ticks = MaxFlyTicks
    /\ state.home.substitutionsUsed > 0 /\ state.home.timeoutsUsed > 0

(* C22: a match is never created from a roster with no player: no tick()
   completes on a match state one of whose sides has an empty roster *)
C22_EmptyRosterRejected ==
    (\E side \in Sides : Len(TeamOf(state, side).players) = 0) =>
        ~(last.op = "tick" /\ last.ok)

----------------------------------------------------------------------------
(* SpecKeeper: the first MaxKeeperTicks seconds of a match in which the away
   side has no goalkeeper.  The carrier shoots, and the shot is saved or goes
   wide for a goal kick, or fails a dribble, in which the ball is lost or a
   foul is called, so that a side can run up six accumulated fouls and
   concede a penalty *)

SquadPairs == { <<HomeFive, OutfieldFive>> }

InitSquads ==
    /\ \E r \in SquadPairs : state = initializeMatch(r[1], r[2])
    /\ tickCallbacks = 0
    /\ last = Call("new", "null", TRUE, <<>>, 0)
    /\ ticks = 0
    /\ rejected = 0
    /\ returned = <<>>

KeeperRolls ==
    [ QuietRolls EXCEPT !.action = {"dribble", "shoot"},
                        !.dribbleOk = {FALSE}, !.dribbleFoul = BOOLEAN,
                        !.card = {FALSE}, !.fkShot = {FALSE},
                        !.shot = {"saved", "wide"}, !.wideCorner = {FALSE},
                        !.assist = {FALSE} ]

KeeperTick == state.period > 0 /\ TickWith(KeeperRolls, MaxKeeperTicks)

NextKeeper ==
    \/ SubKickoff
    \/ KeeperTick

SpecKeeper == InitSquads /\ [][NextKeeper]_vars

(* a side with players on court none of whom is a goalkeeper *)
NoKeeper(s, side) ==
    /\ Len(TeamOf(s, side).onCourt) > 0
    /\ \A i \in 1..Len(TeamOf(s, side).players) :
          LET p == TeamOf(s, side).players[i]
          IN  ~(p.position = "GK" /\ p.isOnCourt)

HoldsBall(s) ==
    /\ s.ball.possessionTeam \in Sides
    /\ Includes(TeamOf(s, s.ball.possessionTeam).onCourt, s.ball.possessionPlayer)

(* C23: in a completed tick, a restart from save or goal_kick and a change
   of possession in open play leave the ball with a player on court of the
   side that receives it, also when that side has no goalkeeper on court;
   and a penalty against a side with no goalkeeper on court is taken: the
   tick returns a penalty event and leaves the phase at goal_scored, save or
   goal_kick *)
C23_Fallback ==
    [][ CompletedTick =>
          /\ state.phase \in {"save", "goal_kick"} => HoldsBall(state')
          /\ (/\ state.phase = "open_play"
              /\ state'.ball.possessionTeam /= state.ball.possessionTeam) =>
                 HoldsBall(state')
          /\ (/\ state.phase = "penalty"
              /\ NoKeeper(state, Other(state.ball.possessionTeam))) =>
                 /\ \E k \in 1..Len(last'.events) : last'.events[k].type = "penalty"
                 /\ state'.phase \in {"goal_scored", "save", "goal_kick"} ]_vars

----------------------------------------------------------------------------
(* SpecAttack: the first MaxAttackTicks seconds of a match in which every
   carrier in open play passes, to any team-mate, and every roll of the
   attack and of the shot is free; no foul is called *)

AttackRolls ==
    [ AllRolls EXCEPT !.action = {"pass"}, !.foulRoll = {FALSE},
                      !.assist = {FALSE}, !.cornerRoll = {"keep"} ]

AttackTick == state.period > 0 /\ TickWith(AttackRolls, MaxAttackTicks)

NextAttack ==
    \/ SubKickoff
    \/ AttackTick

SpecAttack == InitMatch /\ [][NextAttack]_vars

(* C24 as claimed: a completed tick that starts in phase shot leaves the
   phase in goal_scored, save, corner, goal_kick or shot *)
C24_Claimed ==
    [][ (CompletedTick /\ state.phase = "shot") =>
           state'.phase \in {"goal_scored", "save", "corner", "goal_kick", "shot"} ]_vars

(* C24 amended: a completed tick that starts in phase shot leaves the phase
   in goal_scored, save, corner, goal_kick or open_play (a blocked shot
   or no shooter), and never in shot *)
C24_ShotResolves ==
    [][ (CompletedTick /\ state.phase = "shot") =>
           state'.phase \in {"goal_scored", "save", "corner", "goal_kick",
                             "open_play"} ]_vars

(* a blocked shot: the tick returned the shot event alone and play is open *)
C24_Witness ==
    /\ last.op = "tick" /\ last.ok
    /\ Len(last.events) = 1 /\ last.events[1].type = "shot"
    /\ state.phase = "open_play"
    /\ state.stats.shots.home + state.stats.shots.away = 1

(* C26: a completed tick that starts in phase attack leaves the phase at
   shot, open_play or attack, and when the ball has gone to the other side
   in that tick (the pass was intercepted) the phase is no longer attack *)
C26_AttackLeaves ==
    [][ (CompletedTick /\ state.phase = "attack") =>
           /\ state'.phase \in {"shot", "open_play", "attack"}
           /\ state'.ball.possessionTeam /= state.ball.possessionTeam =>
                 state'.phase /= "attack" ]_vars

----------------------------------------------------------------------------
(* SpecGoals: a match driven as in SpecMatch, quiet until the last
   GoalWindow seconds of the first half; from then on, and for the first
   GoalWindow seconds of the second half, where the run stops, the carrier
   shoots or loses the ball and a shot is a goal or is saved *)

GoalsLive == state.period = 2 \/ Elapsed >= HalfTicks - GoalWindow

GoalTick ==
    /\ state.period > 0 /\ ~state.isPaused
    /\ IF GoalsLive
       THEN TickWith([PlayRolls EXCEPT !.foulRoll = {FALSE}], HalfTicks + GoalWindow)
       ELSE TickWith(QuietRolls, HalfTicks + GoalWindow)

NextGoals ==
    \/ FoulKickoff
    \/ GoalTick
    \/ FoulSecondHalf

SpecGoals == InitMatch /\ [][NextGoals]_vars

SameScore == state'.homeGoals = state.homeGoals /\ state'.awayGoals = state.awayGoals

(* the side of the goal event the last tick returned *)
Scorer(call) ==
    call.events[CHOOSE k \in 1..Len(call.events) : call.events[k].type = "goal"].teamId

(* C25 as claimed: a step that changes the score leaves the phase at
   goal_scored; the next tick that returns stateChanged = true sets the phase
   to kickoff, gives possession to the side that conceded and leaves the
   score alone; a tick that starts in phase kickoff and returns stateChanged =
   true sets the phase to open_play and leaves the score alone *)
C25_Claimed ==
    [][ /\ ~SameScore => state'.phase = "goal_scored"
        /\ (last'.op = "tick" /\ last'.ok /\ state.phase = "goal_scored") =>
              /\ state'.phase = "kickoff"
              /\ state'.ball.possessionTeam = Other(Scorer(last))
              /\ SameScore
        /\ (last'.op = "tick" /\ last'.ok /\ state.phase = "kickoff") =>
              /\ state'.phase = "open_play"
              /\ SameScore ]_vars

(* C25 amended: the same of the ticks that do not end the period; the tick
   that reaches 20:00 leaves phase, possession and score as they are *)
C25_AfterGoal ==
    [][ /\ ~SameScore => state'.phase = "goal_scored"
        /\ (CompletedTick /\ state.phase = "goal_scored") =>
              /\ state'.phase = "kickoff"
              /\ state'.ball.possessionTeam = Other(Scorer(last))
              /\ SameScore
        /\ (CompletedTick /\ state.phase = "kickoff") =>
              /\ state'.phase = "open_play"
              /\ SameScore
        /\ (last'.op = "tick" /\ last'.ok /\ state'.isPaused) =>
              /\ state'.phase = state.phase
              /\ state'.ball = state.ball
              /\ SameScore ]_vars

(* open play right after the kick-off that followed a goal: the side that
   conceded has the ball, which still names the scorer as its carrier *)
C25_Witness ==
    /\ last.op = "tick" /\ last.ok
    /\ state.phase = "open_play"
    /\ state.homeGoals + state.awayGoals = 1
    /\ state.ball.possessionTeam = (IF state.homeGoals = 1 THEN "away" ELSE "home")
    /\ FindIndex(TeamOf(state, state.ball.possessionTeam).players,
                 state.ball.possessionPlayer) = 0

(* C27: in every state, each team's onCourt and bench share no identifier,
   and every player of the roster is in exactly one of three places: on
   court (identifier in onCourt), on the bench (identifier in bench), or
   sent off (dismissed by a second yellow card) *)
C27_RosterPartition ==
    \A side \in Sides :
       LET team == TeamOf(state, side)
       IN  /\ Range(team.onCourt) \cap Range(team.bench) = {}
           /\ \A i \in 1..Len(team.players) :
                 LET p == team.players[i]
                 IN  Cardinality({ place \in {"court", "bench", "off"} :
                        \/ place = "court" /\ Includes(team.onCourt, p.playerId)
                        \/ place = "bench" /\ Includes(team.bench, p.playerId)
                        \/ place = "off" /\ Dismissed(team, p) }) = 1

----------------------------------------------------------------------------
(* SpecAutoSub: the first MaxAutoSubTicks seconds of a quiet match of a
   tired home squad, in which either bench may also be used by hand, with
   valid and invalid identifiers, as long as no substitution has been made *)

InitAutoSub ==
    /\ state = initializeMatch(TiredSquad, AwaySquad)
    /\ tickCallbacks = 0
    /\ last = Call("new", "null", TRUE, <<>>, 0)
    /\ ticks = 0
    /\ rejected = 0
    /\ returned = <<>>

AutoSubTick == state.period > 0 /\ TickWith(QuietRolls, MaxAutoSubTicks)

NextAutoSub ==
    \/ SubKickoff
    \/ AutoSubTick
    \/ FlySub

SpecAutoSub == InitAutoSub /\ [][NextAutoSub]_vars

(* the players of `side` a step took off the court, and those it brought on *)
TakenOff(side) ==
    { p \in Range(TeamOf(state', side).players) :
        /\ Includes(TeamOf(state, side).onCourt, p.playerId)
        /\ ~Includes(TeamOf(state', side).onCourt, p.playerId) }

BroughtOn(side) ==
    { p \in Range(TeamOf(state', side).players) :
        /\ ~Includes(TeamOf(state, side).onCourt, p.playerId)
        /\ Includes(TeamOf(state', side).onCourt, p.playerId) }

(* C28: a tick changes a team's onCourt by an automatic substitution only
   when the second it has advanced to is 0 or 30; it then takes off exactly
   one player, not a goalkeeper, who was on court with stamina below 40, and
   brings on exactly one, not a goalkeeper, who was on the bench with
   stamina above 70, and counts one substitution *)
C28_AutoSubstitution ==
    [][ last'.op = "tick" =>
          \A side \in Sides :
             LET before == TeamOf(state, side)
                 after  == TeamOf(state', side)
             IN  /\ after.substitutionsUsed \in
                       {before.substitutionsUsed, before.substitutionsUsed + 1}
                 /\ after.substitutionsUsed = before.substitutionsUsed =>
                       after.onCourt = before.onCourt
                 /\ after.substitutionsUsed > before.substitutionsUsed =>
                       /\ state'.second \in {0, AUTO_SUB_INTERVAL}
                       /\ Cardinality(TakenOff(side)) = 1
                       /\ Cardinality(BroughtOn(side)) = 1
                       /\ \A p \in TakenOff(side) :
                             p.position /= "GK" /\ p.stamina < 40 * 100
                       /\ \A p \in BroughtOn(side) :
                             /\ p.position /= "GK" /\ p.stamina > 70 * 100
                             /\ Includes(before.bench, p.playerId) ]_vars

(* both automatic substitutions of the tired squad have been made, and the
   tired goalkeeper is still on court *)
C28_Witness ==
    /\ last.op = "tick" /\ state.minute = 1 /\ state.second = 0
    /\ state.home.substitutionsUsed = 2
    /\ Includes(state.home.onCourt, "h7") /\ Includes(state.home.onCourt, "h8")
    /\ Includes(state.home.bench, "h2") /\ Includes(state.home.bench, "h5")
    /\ Includes(state.home.onCourt, "h1") /\ Includes(state.home.bench, "h6")

(* C29: every player's stamina stays within 0..100 (here in hundredths) and
   no step raises it; a step lowers it only if it is a completed tick and
   the player was in onCourt; the stamina of a player on the bench or sent
   off is changed by no step *)
C29_Stamina ==
    [][ \A side \in Sides :
          LET team == TeamOf(state, side)
          IN  \A i \in 1..Len(team.players) :
                 LET p == team.players[i]
                     q == TeamOf(state', side).players[i]
                 IN  /\ q.stamina \in 0..(100 * 100)
                     /\ q.stamina <= p.stamina
                     /\ q.stamina < p.stamina =>
                           /\ last'.op = "tick" /\ last'.ok
                           /\ Includes(team.onCourt, p.playerId)
                     /\ (Includes(team.bench, p.playerId) \/ Dismissed(team, p)) =>
                           q.stamina = p.stamina ]_vars

(* the sum of foulsCommitted over the roster of `side` *)
FoulsBy(s, side) ==
    Cardinality(UNION { {i} \X (1..TeamOf(s, side).players[i].foulsCommitted)
                        : i \in 1..Len(TeamOf(s, side).players) })

(* C30: in every tick, a side's stats.fouls and accumulatedFouls rise by as
   much as the foulsCommitted of its own players (accumulatedFouls unless
   the tick ends the half); a side whose player is charged is the side that
   was not in possession when the tick began; and every foul or card event
   the tick returns carries the side of the player it names *)
C30_FoulCharged ==
    [][ last'.op = "tick" =>
          /\ \A side \in Sides :
                LET charged == FoulsBy(state', side) - FoulsBy(state, side)
                IN  /\ state'.stats.fouls[side] - state.stats.fouls[side] = charged
                    /\ ~state'.isPaused =>
                          Fouls(state', side) - Fouls(state, side) = charged
                    /\ charged > 0 => side = Other(state.ball.possessionTeam)
          /\ \A k \in 1..Len(last'.events) :
                LET e == last'.events[k]
                IN  e.type \in {"foul", "yellow_card", "second_yellow", "red_card"} =>
                       FindIndex(TeamOf(state, e.teamId).players, e.playerId) > 0 ]_vars

----------------------------------------------------------------------------
(* Properties of the event log against the tick results (Spec) *)

(* the events a step appended to the match event log *)
Appended == SubSeq(state'.events, Len(state.events) + 1, Len(state'.events))

(* C31: the events a tick returns in its TickResult are exactly the events
   the tick appended to state.events, in the same order *)
C31_ResultIsLog ==
    [][ last'.op = "tick" =>
          /\ Len(state'.events) >= Len(state.events)
          /\ last'.events = Appended ]_vars

----------------------------------------------------------------------------
(* SpecSentOff: the first MaxSentOffTicks seconds of a match of the weary
   home squad.  During the first SentOffWindow seconds the carrier loses
   the ball or is fouled in a failed dribble, by the first player the
   opponent has on court, and a card may be shown; play is quiet afterwards *)

SentOffRolls ==
    [ QuietRolls EXCEPT !.action = {"lose_possession", "dribble"},
                        !.dribbleOk = {FALSE}, !.dribbleFoul = {TRUE},
                        !.card = BOOLEAN, !.fkShot = {FALSE} ]

InitSentOff ==
    /\ state = initializeMatch(WearySquad, AwaySquad)
    /\ tickCallbacks = 0
    /\ last = Call("new", "null", TRUE, <<>>, 0)
    /\ ticks = 0
    /\ rejected = 0
    /\ returned = <<>>

SentOffTick ==
    /\ state.period > 0
    /\ IF ticks < SentOffWindow THEN TickWith(SentOffRolls, MaxSentOffTicks)
       ELSE TickWith(QuietRolls, MaxSentOffTicks)

NextSentOff ==
    \/ SubKickoff
    \/ SentOffTick

SpecSentOff == InitSentOff /\ [][NextSentOff]_vars

(* `side` has a tired outfield player on court and a fresh one on its bench *)
SubstitutionDue(s, side) ==
    LET team == TeamOf(s, side)
    IN  /\ \E p \in Range(team.players) :
              /\ Includes(team.onCourt, p.playerId)
              /\ p.position /= "GK" /\ p.stamina < 40 * 100
        /\ \E p \in Range(team.players) :
              /\ Includes(team.bench, p.playerId)
              /\ p.position /= "GK" /\ p.stamina > 70 * 100

(* C32: a completed tick that advances to second 0 or 30 makes a
   substitution (onCourt changes and a substitution event is appended) for
   every team that had a tired outfield player on court and a fresh outfield
   player on its bench, whether or not one of its players has been sent off *)
C32_SubstitutionTakesPlace ==
    [][ /\ last'.op = "tick" /\ last'.ok /\ ~state'.isPaused
        /\ state'.second % AUTO_SUB_INTERVAL = 0
        => \A side \in Sides :
              SubstitutionDue(state, side) =>
                 /\ TeamOf(state', side).onCourt /= TeamOf(state, side).onCourt
                 /\ \E k \in 1..Len(Appended) :
                       /\ Appended[k].type = "substitution"
                       /\ Appended[k].teamId = side ]_vars

----------------------------------------------------------------------------
(* SpecWeighted: weightedRandom applied to every table of action weights
   calculateActionWeights can build, with draws on, and within DrawMargin
   of, every boundary between two entries.  Weights and draws are counted
   in ten-thousandths, which keeps every product of the source exact. *)

Entry(key, weight) == [key |-> key, weight |-> weight]

(* w * factor, for a factor given in hundredths *)
Times(w, hundredths) == (w * hundredths) \div 100

(* the table in the order its keys were inserted: pass, dribble, shoot,
   lose_possession *)
calculateActionWeights(zone, mentality, tempo, shooter, dribbler) ==
    LET base == IF zone = "opp_goal_area" THEN <<50, 25, 12, 13>>
                ELSE IF zone = "opp_half_attack" THEN <<55, 30, 3, 12>>
                ELSE <<70, 20, 1, 9>>
        pass0    == base[1] * 10000
        dribble0 == base[2] * 10000
        shoot0   == base[3] * 10000
        lose     == base[4] * 10000
        pass1    == IF mentality = "defensive" THEN Times(pass0, 120) ELSE pass0
        shoot1   == IF mentality = "attacking" THEN Times(shoot0, 120)
                    ELSE IF mentality = "defensive" THEN Times(shoot0, 80)
                    ELSE shoot0
        dribble1 == IF mentality = "attacking" THEN Times(dribble0, 110)
                    ELSE dribble0
        dribble2 == IF tempo = "fast" THEN Times(dribble1, 110) ELSE dribble1
        shoot2   == IF shooter THEN Times(shoot1, 115) ELSE shoot1
        dribble3 == IF dribbler THEN Times(dribble2, 115) ELSE dribble2
    IN  << Entry("pass", pass1), Entry("dribble", dribble3),
           Entry("shoot", shoot2), Entry("lose_possession", lose) >>

(* weightedRandom returning on random < 0 *)
weightedRandom_strict(weights, random) ==
    LET left[k \in 0..Len(weights)] ==
            IF k = 0 THEN random ELSE left[k - 1] - weights[k].weight
        hits == { k \in 1..Len(weights) : left[k] < 0 }
    IN  IF hits = {} THEN weights[1].key
        ELSE weights[CHOOSE k \in hits : \A m \in hits : k <= m].key

(* `weights` is Object.entries(weights); `random` is Math.random() * total *)
weightedRandom(weights, random) ==
    LET left[k \in 0..Len(weights)] ==
            IF k = 0 THEN random ELSE left[k - 1] - weights[k].weight
        hits == { k \in 1..Len(weights) : left[k] <= 0 }
    IN  IF hits = {} THEN weights[1].key
        ELSE weights[CHOOSE k \in hits : \A m \in hits : k <= m].key

(* the summed weight of the first k entries *)
Cumulative(weights, k) ==
    LET sum[j \in 0..Len(weights)] ==
            IF j = 0 THEN 0 ELSE sum[j - 1] + weights[j].weight
    IN  sum[k]

Total(weights) == Cumulative(weights, Len(weights))

Tables ==
    { calculateActionWeights(zone, mentality, tempo, shooter, dribbler) :
        zone \in {"center", "opp_half_attack", "opp_goal_area"},
        mentality \in {"defensive", "balanced", "attacking"},
        tempo \in {"normal", "fast"},
        shooter \in BOOLEAN, dribbler \in BOOLEAN }

(* values of Math.random() * total: zero, and those on or near a boundary *)
Draws(weights) ==
    LET near == {0} \cup UNION { (Cumulative(weights, k) - DrawMargin)
                                  ..(Cumulative(weights, k) + DrawMargin)
                                 : k \in 1..Len(weights) }
    IN  { r \in near : r >= 0 /\ r < Total(weights) }

InitWeighted ==
    /\ state = initializeMatch(HomeSquad, AwaySquad)
    /\ tickCallbacks = 0
    /\ \E weights \in Tables :
          \E random \in Draws(weights) :
             last = [Call("new", "null", TRUE, <<>>, 0)
                       EXCEPT !.args = <<weights, random>>]
    /\ ticks = 0
    /\ rejected = 0
    /\ returned = <<>>

(* `args` takes the table, the draw and the key returned *)
WeightedRandom ==
    /\ last.op = "new"
    /\ last' = [Call("weightedRandom", "null", TRUE, <<>>, 0)
                  EXCEPT !.args = <<last.args[1], last.args[2],
                                    weightedRandom(last.args[1], last.args[2])>>]
    /\ UNCHANGED <<state, tickCallbacks, ticks, rejected, returned>>

NextWeighted == WeightedRandom

SpecWeighted == InitWeighted /\ [][NextWeighted]_vars

(* C33: for a table of positive weights and a draw r in [0, total),
   weightedRandom returns the first key in iteration order whose cumulative
   weight is at least r; a draw exactly on a boundary gives the earlier
   key; and the key returned is a key of the table *)
C33_WeightedRandom ==
    last.op = "weightedRandom" =>
       LET weights == last.args[1]
           r       == last.args[2]
           key     == last.args[3]
       IN  /\ \A k \in 1..Len(weights) : weights[k].weight > 0
           /\ r >= 0 /\ r < Total(weights)
           /\ \E k \in 1..Len(weights) :
                 /\ key = weights[k].key
                 /\ Cumulative(weights, k) >= r
                 /\ \A m \in 1..(k - 1) : Cumulative(weights, m) < r
           /\ \A k \in 1..Len(weights) :
                 r = Cumulative(weights, k) => key = weights[k].key

(* a draw exactly on the boundary between dribble and shoot gave dribble *)
C33_Witness ==
    /\ last.op = "weightedRandom"
    /\ last.args[2] = Cumulative(last.args[1], 2)
    /\ last.args[3] = "dribble"

----------------------------------------------------------------------------
(* Properties of the on-court flag and of the ball carrier *)

(* C34: in every state, for every team and every player of its roster, the
   player's isOnCourt flag is true exactly when the player's identifier is
   in the team's onCourt list *)
C34_FlagMatchesList ==
    \A side \in Sides :
       LET team == TeamOf(state, side)
       IN  \A i \in 1..Len(team.players) :
              team.players[i].isOnCourt
                 <=> Includes(team.onCourt, team.players[i].playerId)

(* a completed tick that ran the open-play, attack or shot logic for a ball
   carrier found in the roster of the team in possession *)
CarrierTick ==
    /\ last'.op = "tick" /\ last'.ok /\ ~state'.isPaused
    /\ state.phase \in {"open_play", "attack", "shot"}
    /\ state.ball.possessionTeam \in Sides
    /\ FindIndex(TeamOf(state, state.ball.possessionTeam).players,
                 state.ball.possessionPlayer) > 0

(* C35: in a match without fouls (SpecAutoSub), where a team's onCourt
   list after a tick is the one the phase logic of that tick saw: whenever a
   tick runs the open-play, attack or shot logic for a ball carrier, the
   carrier is in the onCourt list of the team in possession *)
C35_CarrierOnCourt ==
    [][ CarrierTick =>
          Includes(TeamOf(state', state.ball.possessionTeam).onCourt,
                   state.ball.possessionPlayer) ]_vars

----------------------------------------------------------------------------
(* Properties of the lifecycle under the public operations *)

(* C36: in every reachable state the clock has not passed 20:00: minute is
   at most 20, second is in 0..59, and minute = 20 implies second = 0 *)
C36_ClockWithinHalf ==
    /\ state.minute <= HALF_DURATION_MINUTES
    /\ state.second \in 0..(SECONDS_PER_MINUTE - 1)
    /\ state.minute = HALF_DURATION_MINUTES => state.second = 0

(* C37: no step lowers the period; kickoff() changes the state only when
   the match has not started, and startSecondHalf() only at half-time; and a
   step that keeps the period does not turn the clock back *)
C37_PeriodForward ==
    [][ /\ state'.period >= state.period
        /\ state'.period - state.period <= 1
        /\ (last'.op = "kickoff" /\ state.period /= 0) => state' = state
        /\ (last'.op = "startSecondHalf" /\ ~(state.period = 1 /\ state.isHalfTime))
              => state' = state
        /\ state'.period = state.period =>
              state'.minute * SECONDS_PER_MINUTE + state'.second >= Elapsed ]_vars

----------------------------------------------------------------------------
(* SpecFullTime: the quiet match of SpecMatch, after whose final whistle
   either side may call a timeout and use its bench, with valid and invalid
   identifiers, until MaxSubs events have been logged after the whistle *)

(* the events logged after the first match_end event *)
AfterWhistle ==
    Cardinality({ k \in 1..Len(state.events) :
                    \E m \in 1..(k - 1) : state.events[m].type = "match_end" })

FullTimeTimeout == state.isFullTime /\ CallTimeout

FullTimeSub == state.isFullTime /\ AfterWhistle < MaxSubs /\ MakeSubstitution

NextFullTime ==
    \/ MatchKickoff
    \/ MatchTick
    \/ MatchSecondHalf
    \/ FullTimeTimeout
    \/ FullTimeSub

SpecFullTime == InitMatch /\ [][NextFullTime]_vars

(* C38: the event log never holds more than one match_end event, and once
   it holds one, a tick, a callTimeout or a makeSubstitution appends no
   event (match_end stays the last event of the log) and changes neither
   timeoutsUsed, nor onCourt, nor the score *)
C38_NothingAfterFullTime ==
    [][ /\ Len(Logged(state', "match_end")) <= 1
        /\ ( /\ Len(Logged(state, "match_end")) = 1
             /\ last'.op \in {"tick", "callTimeout", "makeSubstitution"} )
           => /\ state'.events = state.events
              /\ state'.events[Len(state'.events)].type = "match_end"
              /\ \A side \in Sides :
                    /\ TeamOf(state', side).timeoutsUsed
                          = TeamOf(state, side).timeoutsUsed
                    /\ TeamOf(state', side).onCourt = TeamOf(state, side).onCourt
                    /\ GoalsOf(state', side) = GoalsOf(state, side) ]_vars

====
